---- MODULE Spec2Model ----
(***************************************************************************)
(* A model of the disk-resident B+ tree of bplustree.py: the Node class,   *)
(* the node cache (Node_Fifo), the BplusTree engine, the BplusWalker and   *)
(* recopy_tree.                                                            *)
(*                                                                         *)
(* Keys are Python strings, modelled as sequences of character codes       *)
(* 1..; "" is <<>>.  File positions are modelled as record slots: the      *)
(* header is slot 0 and node records occupy slots 1, 2, ... (every node    *)
(* record has the same byte length).  Python lists are 0-based; the Py*    *)
(* operators take and return 0-based indices.                              *)
(* The last part models the servers of paxos.py: the paxos coroutine of    *)
(* each server and the datagrams between them.                             *)
(***************************************************************************)
EXTENDS Integers, Sequences, FiniteSets, Bags, TLC

\* ------------------------------------------------------------ bounds
MaxNodeSize == 2
MaxStrings == 2
MaxOpenKey == 4
MaxValue == 1
KeyLen == 3
\* class dbm sets nodesize = 4096; the model's dbm uses leaves of DbmNodeSize buckets
DbmNodeSize == 2
\* the most string records in the file of a dbm that is written to
MaxRecords == 3
\* config.servers lists 5 servers; the model runs NumServers of them
NumServers == 3
\* the most requests the clients send, and the most datagrams the servers receive
MaxRequests == 2
MaxDatagrams == 14


\* ------------------------------------------------- program constants
nilseek == -1
Rootflag == 1
Interiorflag == 2
Freeflag == 3
Leafflag == 4
LeafandRootflag == 5
MinFifoSize == 5
DefaultFifoSize == 33
NoIndex == -1
NoneInt == -1
intsize == 5
bignum == 8322679

Leafflags == {Leafflag, LeafandRootflag}
Interiorflags == {Interiorflag, Rootflag}

\* Python's None where the code uses it for a key (no string is <<0>>)
None == <<0>>

\* ------------------------------------------------------------ inputs
LongKey == [i \in 1..(KeyLen + 1) |-> 1]
ValidKeys == {<<>>, <<1>>, <<2>>}
InputKeys == ValidKeys \cup {LongKey}
InputValues == (0..MaxValue) \cup {-1}
NodeSizes == 2..MaxNodeSize
FifoKeys == {<<1>>, <<2>>}
FifoValues == 0..MaxValue
FifoSizes == {MinFifoSize - 1, MinFifoSize}
StringValues == {"a", "b"}
\* myhash(<<1, 254>>) = myhash(<<2, 1>>): two items of one bucket, and two other buckets
DbmItems == {<<1, 254>>, <<2, 1>>, <<1>>, <<2>>}
DbmValues == {"x", "y"}
ViewKinds == {"caching_BPT", "caching_SBPT"}

\* ----------------------------------------------- Python list helpers
\* the value of a one-element set: Only({e : x \in {d}}) is e with x naming the value of d
Only(S) == CHOOSE x \in S : TRUE

PyMin(a, b) == IF a < b THEN a ELSE b
PyMax(a, b) == IF a > b THEN a ELSE b

\* x in s
PyIn(s, x) == \E i \in 1..Len(s) : s[i] = x

\* s.index(x), for x in s
PyIndex(s, x) == (CHOOSE i \in 1..Len(s) : s[i] = x /\ \A j \in 1..(i - 1) : s[j] # x) - 1

\* del s[i], for 0 <= i < len(s)
PyDel(s, i) == [j \in 1..(Len(s) - 1) |-> IF j <= i THEN s[j] ELSE s[j + 1]]

\* s.insert(i, x): a negative i counts from the end, an i past the end appends
PyInsert(s, i, x) ==
  LET p == IF i < 0 THEN PyMax(0, Len(s) + i) ELSE PyMin(i, Len(s))
  IN  [j \in 1..(Len(s) + 1) |-> IF j <= p THEN s[j] ELSE IF j = p + 1 THEN x ELSE s[j - 1]]

\* [x] * n
PyRepeat(x, n) == [j \in 1..n |-> x]

\* string comparison a < b (lexicographic on character codes)
KeyLess(a, b) ==
  \E i \in 1..Len(b) :
     /\ i <= Len(a) + 1
     /\ \A j \in 1..(i - 1) : a[j] = b[j]
     /\ \/ i = Len(a) + 1
        \/ (i <= Len(a) /\ a[i] < b[i])

\* comparison of (key, int) tuples
PairLess(x, y) == KeyLess(x[1], y[1]) \/ (x[1] = y[1] /\ x[2] < y[2])

RECURSIVE bisect(_, _, _, _)
bisect(a, x, lo, hi) ==
  IF lo < hi
  THEN LET mid == (lo + hi) \div 2
       IN  IF KeyLess(x, a[mid + 1]) THEN bisect(a, x, lo, mid) ELSE bisect(a, x, mid + 1, hi)
  ELSE lo

RECURSIVE insortplace(_, _, _, _)
insortplace(a, x, lo, hi) ==
  IF lo < hi
  THEN LET mid == (lo + hi) \div 2
       IN  IF PairLess(x, a[mid + 1]) THEN insortplace(a, x, lo, mid)
           ELSE insortplace(a, x, mid + 1, hi)
  ELSE lo

insort(a, x) == PyInsert(a, insortplace(a, x, 0, Len(a)), x)

\* ------------------------------------------------------ class Node
\* A Node object: flag, validkeys, indices (size+1 ints), keys (size strings), position.
\* The object's dirty attribute is kept in the tree record's dirtynodes.
NewNode(flag, size, position) ==
  [flag |-> flag,
   validkeys |-> IF flag \in {Interiorflag, Rootflag} THEN -1 ELSE 0,
   indices |-> PyRepeat(-1, size + 1),
   keys |-> PyRepeat(<<>>, size),
   position |-> position]

NodeSize(node) == Len(node.keys)

clear(node) ==
  LET size == NodeSize(node)
  IN  IF node.flag \in Interiorflags
      THEN [node EXCEPT !.keys = PyRepeat(<<>>, size),
                        !.indices = PyRepeat(-1, size + 1),
                        !.validkeys = -1]
      ELSE [node EXCEPT !.keys = PyRepeat(<<>>, size),
                        !.indices = [j \in 1..(size + 1) |-> IF j <= size THEN -1 ELSE node.indices[j]],
                        !.validkeys = 0]

\* results of Node operations that may raise: the node as the raise left it, and the error
NodeOk(node) == [node |-> node, err |-> "ok"]
NodeRaise(node, e) == [node |-> node, err |-> e]

putfirstindex(node, index) ==
  IF node.validkeys >= 0
  THEN NodeRaise(node, "ValueError")
  ELSE NodeOk([node EXCEPT !.indices[1] = index, !.validkeys = 0])

putposition(node, key, position) ==
  LET validkeys == node.validkeys
      last == validkeys + 1
      place == bisect(node.keys, key, 0, validkeys)
      keys1 == PyDel(PyInsert(node.keys, place, key), last)
      indices1 == PyDel(PyInsert(node.indices, place + 1, position), last + 1)
  IN  IF node.flag \notin Interiorflags THEN NodeRaise(node, "ValueError")
      ELSE IF validkeys >= NodeSize(node) THEN NodeRaise(node, "NOROOMERROR")
      ELSE IF validkeys < 0
      THEN NodeOk([node EXCEPT !.validkeys = 0, !.indices[1] = position])
      ELSE IF PyIn(node.keys, key) /\ PyIndex(node.keys, key) < validkeys
      THEN NodeRaise(node, "ValueError")
      ELSE NodeOk([node EXCEPT !.keys = keys1, !.indices = indices1, !.validkeys = last])

delnode(node, key) ==
  LET place == IF key = None THEN 0 ELSE PyIndex(node.keys, key)
      indexplace == IF key = None THEN 0 ELSE place + 1
  IN  IF node.flag \notin Interiorflags THEN NodeRaise(node, "ValueError")
      ELSE IF node.validkeys < 0 THEN NodeRaise(node, "KeyError")
      ELSE IF key # None /\ ~PyIn(node.keys, key) THEN NodeRaise(node, "ValueError")
      ELSE NodeOk([node EXCEPT !.indices = Append(PyDel(node.indices, indexplace), nilseek),
                               !.keys = Append(PyDel(node.keys, place), <<>>),
                               !.validkeys = node.validkeys - 1])

get_keys(node) ==
  IF node.validkeys <= 0 THEN <<>> ELSE SubSeq(node.keys, 1, node.validkeys)

keys_indices(node, leftmost) ==
  LET keys == IF node.flag \in Interiorflags THEN <<leftmost>> \o get_keys(node) ELSE get_keys(node)
  IN  [j \in 1..Len(keys) |-> <<keys[j], node.indices[j]>>]

\* putvalue without the branch that overwrites a key already in the leaf: the key
\* is inserted a second time (a faulty variant, used to test C2)
putvalue_noreplace(node, key, value) ==
  LET validkeys == node.validkeys
      place == bisect(node.keys, key, 0, validkeys)
  IN  IF node.flag \notin Leafflags THEN NodeRaise(node, "ValueError")
      ELSE IF validkeys <= 0
      THEN NodeOk([node EXCEPT !.indices[1] = value, !.keys[1] = key, !.validkeys = 1])
      ELSE IF validkeys >= Len(node.keys) THEN NodeRaise(node, "IndexError")
      ELSE NodeOk([node EXCEPT !.keys = PyInsert(PyDel(node.keys, validkeys), place, key),
                               !.indices = PyInsert(PyDel(node.indices, validkeys), place, value),
                               !.validkeys = validkeys + 1])

putvalue(node, key, value) ==
  LET validkeys == node.validkeys
      found == PyIn(node.keys, key) /\ PyIndex(node.keys, key) < validkeys
      place == bisect(node.keys, key, 0, validkeys)
      keys1 == PyInsert(PyDel(node.keys, validkeys), place, key)
      indices1 == PyInsert(PyDel(node.indices, validkeys), place, value)
  IN  IF node.flag \notin Leafflags THEN NodeRaise(node, "ValueError")
      ELSE IF validkeys <= 0
      THEN NodeOk([node EXCEPT !.indices[1] = value, !.keys[1] = key, !.validkeys = 1])
      ELSE IF found
      THEN NodeOk([node EXCEPT !.keys[PyIndex(node.keys, key) + 1] = key,
                               !.indices[PyIndex(node.keys, key) + 1] = value])
      \* a full node only prints "node out of room" (the raise of NOROOMERROR is
      \* commented out); del keys[validkeys] then raises IndexError on a full node
      ELSE IF validkeys >= Len(node.keys) THEN NodeRaise(node, "IndexError")
      ELSE NodeOk([node EXCEPT !.keys = keys1, !.indices = indices1, !.validkeys = validkeys + 1])

put_all_values(node, ki) ==
  LET c == clear(node)
      length == Len(ki)
  IN  IF length > NodeSize(node)
      THEN NodeRaise([c EXCEPT !.validkeys = length], "IndexError")
      ELSE NodeOk([c EXCEPT !.validkeys = length,
                            !.keys = [j \in 1..Len(c.keys) |-> IF j <= length THEN ki[j][1] ELSE c.keys[j]],
                            !.indices = [j \in 1..Len(c.indices) |->
                                           IF j <= length THEN ki[j][2] ELSE c.indices[j]]])

put_all_positions(node, first_position, kp) ==
  LET c == clear(node)
      length == Len(kp)
  IN  IF length > NodeSize(node)
      THEN NodeRaise([c EXCEPT !.validkeys = length], "IndexError")
      ELSE NodeOk([c EXCEPT !.validkeys = length,
                            !.keys = [j \in 1..Len(c.keys) |-> IF j <= length THEN kp[j][1] ELSE c.keys[j]],
                            !.indices = [j \in 1..Len(c.indices) |->
                                           IF j = 1 THEN first_position
                                           ELSE IF j <= length + 1 THEN kp[j - 1][2]
                                           ELSE c.indices[j]]])

delvalue(node, key) ==
  LET place == PyIndex(node.keys, key)
      prev == node.validkeys - 1
  IN  IF ~PyIn(node.keys, key) THEN NodeRaise(node, "KeyError")
      ELSE NodeOk([node EXCEPT !.keys = PyInsert(PyDel(node.keys, place), prev, <<>>),
                               !.indices = PyInsert(PyDel(node.indices, place), prev, nilseek),
                               !.validkeys = node.validkeys - 1])

\* getvalue returns [err, value]
getvalue(node, key) ==
  IF ~PyIn(node.keys, key)
  THEN [err |-> "KeyError", value |-> nilseek]
  ELSE [err |-> "ok", value |-> node.indices[PyIndex(node.keys, key) + 1]]


\* --------------------------------------- tree record, file and cache
\* A tree is a record of the BplusTree object's fields together with its file
\* and the Node objects it holds:
\*   file        node records on disk; file[p] is the record at node slot p
\*   header      the header record on disk
\*   length, keylen, nodesize, root_seek, free, fifo_enabled, dirty
\*               the BplusTree attributes (free is the free list head)
\*   mem         the live Node objects by position: self.root (at root_seek)
\*               and the nodes held by the cache (fifo_dict)
\*   dirtynodes  the positions of the objects whose dirty attribute is 1
\*   fifo        self.root.fifo: on (a Node_Fifo exists), fifosize, and ff,
\*               the positions of Node_Fifo.fifo, most recently used first
\* One object per position is assumed: an object dropped from the cache is not
\* kept by anybody while another one is loaded for the same position.

linearize(node) ==
  [flag |-> node.flag, validkeys |-> node.validkeys, indices |-> node.indices, keys |-> node.keys]

delinearize(rec, position) ==
  [flag |-> rec.flag, validkeys |-> rec.validkeys, indices |-> rec.indices, keys |-> rec.keys,
   position |-> position]

\* f.seek(position); f.write(data)
WriteRecord(file, position, rec) ==
  IF position = Len(file) + 1 THEN Append(file, rec) ELSE [file EXCEPT ![position] = rec]

HeaderTuple(t) ==
  [length |-> t.length, keylen |-> t.keylen, nodesize |-> t.nodesize,
   root_seek |-> t.root_seek, free |-> t.free]

reset_header(t) ==
  IF t.fifo_enabled THEN [t EXCEPT !.dirty = TRUE] ELSE [t EXCEPT !.header = HeaderTuple(t)]

update_freelist(t, position) ==
  IF t.free # position THEN reset_header([t EXCEPT !.free = position]) ELSE t

Cached(t, position) == t.fifo.on /\ PyIn(t.fifo.ff, position)

\* an object mutated in place: whoever holds it (the tree as its root, the cache) sees it
Mut(t, node) ==
  IF node.position \in DOMAIN t.mem
  THEN [t EXCEPT !.mem = [p \in DOMAIN t.mem |-> IF p = node.position THEN node ELSE t.mem[p]]]
  ELSE t

Hold(t, node) ==
  [t EXCEPT !.mem = [p \in (DOMAIN t.mem) \cup {node.position} |->
                        IF p = node.position THEN node ELSE t.mem[p]]]

\* store(1) of the node the cache drops; the object is forgotten unless it is the root
Evict(t, position) ==
  LET t1 == IF position \in t.dirtynodes
            THEN [t EXCEPT !.file = WriteRecord(t.file, position, linearize(t.mem[position])),
                           !.dirtynodes = @ \ {position}]
            ELSE t
  IN  IF position = t.root_seek THEN t1
      ELSE [t1 EXCEPT !.mem = [p \in (DOMAIN t1.mem) \ {position} |-> t1.mem[p]]]

\* add_to_fifo without the test of len(ff) against fifosize: nothing is ever dropped
add_to_fifo_unbounded(t, node) ==
  LET position == node.position
      ff0 == SelectSeq(t.fifo.ff, LAMBDA p : p # position)
  IN  Hold([t EXCEPT !.fifo.ff = <<position>> \o ff0], node)

add_to_fifo(t, node) ==
  LET position == node.position
      ff0 == SelectSeq(t.fifo.ff, LAMBDA p : p # position)
      ff1 == <<position>> \o ff0
      over == Len(ff1) > t.fifo.fifosize
      t1 == Hold([t EXCEPT !.fifo.ff = IF over THEN SubSeq(ff1, 1, Len(ff1) - 1) ELSE ff1], node)
  IN  IF over THEN Evict(t1, ff1[Len(ff1)]) ELSE t1

store(t, node, force) ==
  LET position == node.position
      written == Mut([t EXCEPT !.file = WriteRecord(t.file, position, linearize(node)),
                               !.dirtynodes = @ \ {position}], node)
  IN  IF ~force /\ Cached(t, position)
      THEN [Mut(t, node) EXCEPT !.dirtynodes = @ \cup {position}]
      ELSE IF ~force /\ t.fifo.on THEN add_to_fifo(written, node)
      ELSE written

\* clone(position).materialize(): [t, node]
materialize(t, position) ==
  IF Cached(t, position)
  THEN [t |-> [t EXCEPT !.fifo.ff = <<position>> \o SelectSeq(t.fifo.ff, LAMBDA p : p # position)],
        node |-> t.mem[position]]
  ELSE Only({[t |-> IF t.fifo.on THEN add_to_fifo(t, node) ELSE t, node |-> node] :
             node \in {delinearize(t.file[position], position)}})

clone(t, self, position) ==
  IF Cached(t, position) THEN t.mem[position]
  ELSE NewNode(self.flag, NodeSize(self), position)

\* getnode returns [t, err, node]
getnode(t, self, key) ==
  IF self.flag \notin Interiorflags THEN [t |-> t, err |-> "ValueError", node |-> self]
  ELSE IF key # None /\ ~PyIn(self.keys, key) THEN [t |-> t, err |-> "ValueError", node |-> self]
  ELSE Only({IF place < 0 THEN [t |-> t, err |-> "IndexError", node |-> self]
             ELSE Only({[t |-> m.t, err |-> "ok", node |-> m.node] :
                        m \in {materialize(t, place)}}) :
             place \in {self.indices[(IF key = None THEN 0 ELSE PyIndex(self.keys, key) + 1) + 1]}})

\* nextneighbor returns [t, node, found]; found is FALSE where the code returns None,
\* at the end of the leaf chain
nextneighbor(t, self) ==
  Only({IF position = nilseek THEN [t |-> t, node |-> self, found |-> FALSE]
        ELSE Only({[t |-> m.t, node |-> m.node, found |-> TRUE] :
                   m \in {materialize(t, position)}}) :
        position \in {self.indices[NodeSize(self) + 1]}})

\* newneighbor returns [self, neighbor]
newneighbor(t, self, position) ==
  Only({[self |-> [self EXCEPT !.indices[size + 1] = position],
         neighbor |-> [neighbor EXCEPT !.indices[size + 1] = self.indices[size + 1]]] :
        size \in {NodeSize(self)}, neighbor \in {clone(t, self, position)}})

\* free returns [t, position]
Node_free(t, self, freenodeposition) ==
  [t |-> store(t, [self EXCEPT !.flag = Freeflag, !.indices[1] = freenodeposition], FALSE),
   position |-> self.position]

\* delnext returns [t, err, self, position]
delnext(t, self, next, freepos) ==
  IF self.indices[NodeSize(self) + 1] # next.position
  THEN [t |-> t, err |-> "ValueError", self |-> self, position |-> freepos]
  ELSE Only({Only({[t |-> f.t, err |-> "ok", self |-> self1, position |-> f.position] :
                   f \in {Node_free(Mut(t, self1), next, freepos)}}) :
             self1 \in {[self EXCEPT !.indices[NodeSize(self) + 1] = next.indices[NodeSize(self) + 1]]}})

\* getfreenode returns [t, node, next]
getfreenode(t, self, freeposition, callback) ==
  IF freeposition = nilseek
  THEN Only({[t |-> store(t, thenode, FALSE), node |-> thenode, next |-> nilseek] :
             thenode \in {clone(t, self, Len(t.file) + 1)}})
  ELSE Only({[t |-> store(IF callback THEN update_freelist(m.t, m.node.indices[1]) ELSE m.t,
                          thenode, FALSE),
              node |-> thenode, next |-> m.node.indices[1]] :
             m \in {materialize(t, freeposition)},
             thenode \in {NewNode(self.flag, NodeSize(self), freeposition)}})

\* flush_fifo that empties the cache without storing its dirty nodes (a faulty
\* variant, used to test C8)
flush_fifo_nostore(t) ==
  [t EXCEPT !.fifo.ff = <<>>,
            !.mem = [p \in (DOMAIN t.mem) \cap {t.root_seek} |-> t.mem[p]]]

flush_fifo(t) ==
  Only({[t EXCEPT !.file = [p \in 1..Len(t.file) |->
                              IF p \in dirtyff THEN linearize(t.mem[p]) ELSE t.file[p]],
                  !.dirtynodes = @ \ dirtyff,
                  !.fifo.ff = <<>>,
                  !.mem = [p \in (DOMAIN t.mem) \cap {t.root_seek} |-> t.mem[p]]] :
        dirtyff \in {{t.fifo.ff[i] : i \in 1..Len(t.fifo.ff)} \cap t.dirtynodes}})


\* -------------------------------------------------- class BplusTree
putnode(node, key, position) ==
  IF key = None THEN NodeRaise(node, "TypeError") ELSE putposition(node, key, position)

\* the result of divide_entries: [node1, node2, leftmost, err]
Divided(n1, n2, k, e) == [node1 |-> n1, node2 |-> n2, leftmost |-> k, err |-> e]

\* divide_entries: the entries are halved between node1 and node2
divide_entries(firstindex, node1, node2, entries) ==
  Only({IF node1.flag \in Interiorflags
        THEN IF right = <<>> THEN Divided(node1, node2, None, "IndexError")
             ELSE Only({IF p1.err # "ok" THEN Divided(p1.node, node2, None, p1.err)
                        ELSE IF p2.err # "ok" THEN Divided(p1.node, p2.node, None, p2.err)
                        ELSE Divided(p1.node, p2.node, right[1][1], "ok") :
                        p1 \in {put_all_positions(node1, firstindex, left)},
                        p2 \in {put_all_positions(node2, right[1][2], Tail(right))}})
        ELSE Only({IF v1.err # "ok" THEN Divided(v1.node, node2, None, v1.err)
                   ELSE IF v2.err # "ok" THEN Divided(v1.node, v2.node, None, v2.err)
                   ELSE IF right = <<>> THEN Divided(v1.node, v2.node, None, "IndexError")
                   ELSE Divided(v1.node, v2.node, right[1][1], "ok") :
                   v1 \in {put_all_values(node1, left)},
                   v2 \in {put_all_values(node2, right)}}) :
        left \in {SubSeq(entries, 1, PyMin(Len(entries) \div 2 + 1, Len(entries)))},
        right \in {SubSeq(entries, Len(entries) \div 2 + 2, Len(entries))}})

\* the child an interior node's keys send key to: [place, index, nodekey]
Descend(node, key) ==
  Only({Only({[place |-> place, index |-> index,
               nodekey |-> IF index = 0 THEN None ELSE node.keys[place]] :
              index \in {IF place >= node.validkeys \/ ~KeyLess(node.keys[place + 1], key)
                         THEN place ELSE place + 1}}) :
        place \in {bisect(node.keys, key, 0, node.validkeys)}})

\* results of set: the tree, the error, and None (split = FALSE) or (leftmost, newnode)
SetNone(t) == [t |-> t, err |-> "ok", split |-> FALSE, leftmost |-> None, newpos |-> nilseek]
SetRaise(t, e) == [t |-> t, err |-> e, split |-> FALSE, leftmost |-> None, newpos |-> nilseek]
SetSplit(t, k, p) == [t |-> t, err |-> "ok", split |-> TRUE, leftmost |-> k, newpos |-> p]

\* the end of a split: the two nodes as divide_entries left them are stored
StoreDivided(t, d, newlength, newpos) ==
  Only({IF d.err # "ok" THEN SetRaise(t2, d.err)
        ELSE SetSplit([store(store(t2, d.node1, FALSE), d.node2, FALSE) EXCEPT !.length = newlength],
                      d.leftmost, newpos) :
        t2 \in {Mut(Mut(t, d.node1), d.node2)}})

\* set, interior node: the child returned (leftmost, insertnode); no room in node
SplitInterior(t, node, leftmost, insertindex) ==
  Only({Only({StoreDivided([fr.t EXCEPT !.free = fr.next],
                           divide_entries(ki0[1][2], node, newnode,
                                          insort(Tail(ki0), <<leftmost, insertindex>>)),
                           fr.t.length, newnode.position) :
              newnode \in {[fr.node EXCEPT !.flag = Interiorflag]}}) :
        fr \in {getfreenode(t, node, t.free, TRUE)},
        ki0 \in {keys_indices(node, None)}})

\* set, leaf: putvalue raised NOROOMERROR
SplitLeaf(t, node, key, value, newlength) ==
  Only({Only({Only({Only({StoreDivided(t1, divide_entries(0, nn.self, newnode, ki),
                                       newlength, newnode.position) :
                          newnode \in {[nn.neighbor EXCEPT !.flag = Leafflag]}}) :
                    nn \in {newneighbor(t1, node, fr.node.position)}}) :
              t1 \in {[fr.t EXCEPT !.free = fr.next]}}) :
        fr \in {getfreenode(t, node, t.free, TRUE)},
        ki \in {insort(keys_indices(node, None), <<key, value>>)}})

\* set, leaf
SetLeaf(t, key, value, node) ==
  Only({IF pv.err = "NOROOMERROR" THEN SplitLeaf(t, node, key, value, newlength)
        ELSE IF pv.err # "ok" THEN SetRaise(t, pv.err)
        ELSE SetNone([store(t, pv.node, FALSE) EXCEPT !.length = newlength]) :
        pv \in {putvalue(node, key, value)},
        newlength \in {IF ~PyIn(node.keys, key) \/ PyIndex(node.keys, key) >= node.validkeys
                       THEN t.length + 1 ELSE t.length}})

\* set, interior node, after the recursive call returned test
SetInterior(node, test) ==
  IF test.err # "ok" \/ ~test.split THEN test
  ELSE Only({IF pn.err = "NOROOMERROR"
             THEN SplitInterior(test.t, node, test.leftmost, test.newpos)
             ELSE IF pn.err # "ok" THEN SetRaise(test.t, pn.err)
             ELSE SetNone(store(test.t, pn.node, FALSE)) :
             pn \in {putnode(node, test.leftmost, test.newpos)}})

RECURSIVE set(_, _, _, _)
set(t, key, value, node) ==
  IF node.flag \in Interiorflags
  THEN Only({IF g.err # "ok" THEN SetRaise(g.t, g.err)
             ELSE SetInterior(node, set(g.t, key, value, g.node)) :
             g \in {getnode(t, node, Descend(node, key).nodekey)}})
  ELSE SetLeaf(t, key, value, node)

\* self.root, the Node object the tree keeps
RootNode(t) == t.mem[t.root_seek]

\* self.root is None: the tree object was neither started nor opened
RootIsNone(t) == t.root_seek \notin DOMAIN t.mem

\* __setitem__, after set returned (leftmost, node): make a non-leaf root
SplitRoot(t, leftmost, newpos) ==
  Only({Only({IF pf.err # "ok" THEN [t |-> t1, err |-> pf.err]
              ELSE Only({IF pp.err # "ok" THEN [t |-> t1, err |-> pp.err]
                         ELSE [t |-> reset_header(
                                       store(store([Hold(t1, pp.node) EXCEPT
                                                      !.root_seek = pp.node.position],
                                                   pp.node, FALSE),
                                             root1, FALSE)),
                               err |-> "ok"] :
                         pp \in {putnode(pf.node, leftmost, newpos)}}) :
              t1 \in {Mut([fr.t EXCEPT !.free = fr.next], root1)},
              pf \in {putfirstindex(clear([fr.node EXCEPT !.flag = Rootflag]), RootNode(t).position)}}) :
        fr \in {getfreenode(t, RootNode(t), t.free, FALSE)},
        root1 \in {[RootNode(t) EXCEPT !.flag = IF RootNode(t).flag = LeafandRootflag
                                                THEN Leafflag ELSE Interiorflag]}})

\* the Node objects nobody refers to any more are forgotten when a call returns
Forget(t) ==
  Only({[t EXCEPT !.mem = [p \in (DOMAIN t.mem) \cap keep |-> t.mem[p]],
                  !.dirtynodes = @ \cap keep] :
        keep \in {{t.root_seek} \cup
                  (IF t.fifo.on THEN {t.fifo.ff[i] : i \in 1..Len(t.fifo.ff)} ELSE {})}})

\* __setitem__, after set returned test1
SetDone(t, test1) ==
  IF test1.err # "ok" THEN [t |-> Forget(test1.t), err |-> test1.err]
  ELSE IF test1.split
  THEN Only({[t |-> Forget(sr.t), err |-> sr.err] :
             sr \in {SplitRoot(test1.t, test1.leftmost, test1.newpos)}})
  ELSE IF test1.t.length # t.length THEN [t |-> Forget(reset_header(test1.t)), err |-> "ok"]
  ELSE [t |-> Forget(test1.t), err |-> "ok"]

\* __setitem__ without the checks of lines 1063-1064 (a faulty variant, used to
\* test C10)
setitem_unchecked(t, key, value) == SetDone(t, set(t, key, value, RootNode(t)))

\* __setitem__ returns [t, err]
setitem(t, key, value) ==
  IF Len(key) > t.keylen THEN [t |-> t, err |-> "ValueError"]
  ELSE IF value < 0 THEN [t |-> t, err |-> "ValueError"]
  ELSE IF RootIsNone(t) THEN [t |-> t, err |-> "ValueError"]
  ELSE SetDone(t, set(t, key, value, RootNode(t)))

\* results of remove: (newnodekey, node.validkeys), the tree, the error and the node as left
RemDone(t, node, k) == [t |-> t, err |-> "ok", lm |-> k, size |-> node.validkeys, node |-> node]
RemRaise(t, node, e) == [t |-> t, err |-> e, lm |-> None, size |-> node.validkeys, node |-> node]

\* node.delnode(oldkey); node.putnode(newkey, child)
Rekey(node, oldkey, newkey, position) ==
  Only({IF d.err # "ok" THEN d ELSE putnode(d.node, newkey, position) :
        d \in {delnode(node, oldkey)}})

\* redistribute, after divide_entries: the parent is rekeyed and the three nodes stored
Redistributed(t1, node, d, leftnode, leftkey, newleftkey, rightnode, rightkey, lm) ==
  IF d.err # "ok" THEN RemRaise(t1, node, d.err)
  ELSE Only({IF r1.err # "ok" THEN RemRaise(Mut(t1, r1.node), r1.node, r1.err)
             ELSE Only({IF r2.err # "ok" THEN RemRaise(Mut(t1, r2.node), r2.node, r2.err)
                        ELSE RemDone(store(store(store(t1, r2.node, FALSE), d.node1, FALSE),
                                           d.node2, FALSE),
                                     r2.node, IF leftkey = None THEN lm ELSE None) :
                        r2 \in {IF leftkey # None /\ leftkey # newleftkey
                                THEN Rekey(r1.node, leftkey, newleftkey, leftnode.position)
                                ELSE r1}}) :
             r1 \in {Rekey(node, rightkey, d.leftmost, rightnode.position)}})

\* remove, interior node: redistribute leftnode and rightnode
Redistribute(t, node, leftnode, leftkey, rightnode, rightkey, ki, lm) ==
  Only({Redistributed(Mut(Mut(t, d.node1), d.node2), node, d, leftnode, leftkey,
                      IF leftkey = None THEN lm ELSE ki[1][1], rightnode, rightkey, lm) :
        d \in {divide_entries(ki[1][2], leftnode, rightnode,
                              IF leftnode.flag # Leafflag THEN Tail(ki) ELSE ki)}})

\* merge, after rightnode was freed: the parent loses rightkey; parent and leftnode are stored
Merged(t2, node, leftnode1, leftkey, newleftkey, rightkey, lm) ==
  Only({IF r1.err # "ok" THEN RemRaise(Mut(t2, r1.node), r1.node, r1.err)
        ELSE Only({IF r2.err # "ok" THEN RemRaise(Mut(t2, r2.node), r2.node, r2.err)
                   ELSE RemDone(reset_header(store(store(t2, r2.node, FALSE), leftnode1, FALSE)),
                                r2.node, IF leftkey = None THEN lm ELSE None) :
                   r2 \in {delnode(r1.node, rightkey)}}) :
        r1 \in {IF leftkey # None /\ newleftkey # leftkey
                THEN Rekey(node, leftkey, newleftkey, leftnode1.position)
                ELSE NodeOk(node)}})

\* remove, interior node: merge rightnode into leftnode and free rightnode
Merge(t, node, leftnode, leftkey, rightnode, rightkey, ki, lm) ==
  IF ki = <<>> THEN RemRaise(t, node, "IndexError")
  ELSE Only({
    IF pl.err # "ok" THEN RemRaise(Mut(t, pl.node), node, pl.err)
    ELSE IF rightnode.flag = Leafflag
    THEN Only({IF dn.err # "ok" THEN RemRaise(dn.t, node, dn.err)
               ELSE Merged([dn.t EXCEPT !.free = dn.position], node, dn.self,
                           leftkey, ki[1][1], rightkey, lm) :
               dn \in {delnext(Mut(t, pl.node), pl.node, rightnode, t.free)}})
    ELSE Only({Merged([fr.t EXCEPT !.free = fr.position], node, pl.node,
                      leftkey, ki[1][1], rightkey, lm) :
               fr \in {Node_free(Mut(t, pl.node), rightnode, t.free)}}) :
    pl \in {IF leftnode.flag # Leafflag
            THEN put_all_positions(leftnode, ki[1][2], Tail(ki))
            ELSE put_all_values(leftnode, ki)}})

\* restructure, the sibling chosen: [leftkey, rightkey, otherkey], otherkey the sibling's key
Siblings(node, d) ==
  IF d.place >= node.validkeys
  THEN Only({[leftkey |-> leftkey, rightkey |-> d.nodekey, otherkey |-> leftkey] :
             leftkey \in {IF node.validkeys <= 1 THEN None ELSE node.keys[d.place - 1]}})
  ELSE Only({[leftkey |-> d.nodekey, rightkey |-> rightkey, otherkey |-> rightkey] :
             rightkey \in {IF d.index = 0 THEN node.keys[1] ELSE node.keys[d.place + 1]}})

\* restructure, the sibling fetched: redistribute or merge
Rebalance(t, node, leftnode, leftkey, rightnode, rightkey, lm) ==
  Only({IF Len(ki) > t.nodesize \/ (leftnode.flag # Leafflag /\ Len(ki) >= t.nodesize)
        THEN Redistribute(t, node, leftnode, leftkey, rightnode, rightkey, ki, lm)
        ELSE Merge(t, node, leftnode, leftkey, rightnode, rightkey, ki, lm) :
        ki \in {keys_indices(leftnode, leftkey) \o keys_indices(rightnode, rightkey)}})

\* remove, interior node: nextnode came back with fewer than nodesize/2 keys
Restructure(t, node, key, nextnode, lm) ==
  Only({IF d.nodekey = None /\ node.validkeys = 0 THEN RemRaise(t, node, "IndexError")
        ELSE Only({Only({IF g.err # "ok" THEN RemRaise(g.t, node, g.err)
                         ELSE IF d.place >= node.validkeys
                         THEN Rebalance(g.t, node, g.node, s.leftkey, nextnode, s.rightkey, lm)
                         ELSE Rebalance(g.t, node, nextnode, s.leftkey, g.node, s.rightkey, lm) :
                         g \in {getnode(t, node, s.otherkey)}}) :
                   s \in {Siblings(node, d)}}) :
        d \in {Descend(node, key)}})

\* remove, interior node, after the recursive call returned r for the child under nodekey
RemoveInterior(node, key, nodekey, nodesize, r) ==
  IF r.err # "ok" THEN RemRaise(r.t, node, r.err)
  ELSE IF r.size < nodesize \div 2 THEN Restructure(r.t, node, key, r.node, r.lm)
  ELSE IF nodekey = None THEN RemDone(r.t, node, r.lm)
  ELSE IF r.lm = None THEN RemDone(r.t, node, None)
  ELSE Only({IF rk.err # "ok" THEN RemRaise(Mut(r.t, rk.node), rk.node, rk.err)
             ELSE RemDone(Mut(r.t, rk.node), rk.node, None) :
             rk \in {Rekey(node, nodekey, r.lm, r.node.position)}})

\* remove, leaf
RemoveLeaf(t, key, node) ==
  IF node.validkeys < 1 THEN RemRaise(t, node, "KeyError")
  ELSE Only({IF dv.err # "ok" THEN RemRaise(t, node, dv.err)
             ELSE RemDone([store(t, dv.node, FALSE) EXCEPT !.length = t.length - 1], dv.node,
                          IF node.keys[1] # dv.node.keys[1] THEN dv.node.keys[1] ELSE None) :
             dv \in {delvalue(node, key)}})

RECURSIVE remove(_, _, _)
remove(t, key, node) ==
  IF node.flag \in Interiorflags
  THEN Only({Only({IF g.err # "ok" THEN RemRaise(g.t, node, g.err)
                   ELSE RemoveInterior(node, key, nodekey, t.nodesize, remove(g.t, key, g.node)) :
                   g \in {getnode(t, node, nodekey)}}) :
             nodekey \in {Descend(node, key).nodekey}})
  ELSE RemoveLeaf(t, key, node)

\* __delitem__ without the promotion of the new root's flag (a faulty variant, used to
\* test C28)
CollapseRoot_unpromoted(t, root) ==
  IF root.validkeys < 0 THEN [t |-> t, err |-> "ValueError"]
  ELSE Only({
    IF g.err # "ok" THEN [t |-> g.t, err |-> g.err]
    ELSE Only({[t |-> store(reset_header([fr.t EXCEPT !.free = fr.position]), g.node, FALSE),
                err |-> "ok"] :
               fr \in {Node_free([Hold(g.t, g.node) EXCEPT !.root_seek = g.node.position],
                                 root, g.t.free)}}) :
    g \in {getnode(t, root, None)}})

\* __delitem__, the root is left with one child: that child becomes the root
CollapseRoot(t, root) ==
  IF root.validkeys < 0 THEN [t |-> t, err |-> "ValueError"]
  ELSE Only({
    IF g.err # "ok" THEN [t |-> g.t, err |-> g.err]
    ELSE Only({[t |-> store(reset_header([fr.t EXCEPT !.free = fr.position]),
                            [g.node EXCEPT !.flag = IF g.node.flag = Leafflag
                                                    THEN LeafandRootflag ELSE Rootflag],
                            FALSE),
                err |-> "ok"] :
               fr \in {Node_free([Hold(g.t, g.node) EXCEPT !.root_seek = g.node.position],
                                 root, g.t.free)}}) :
    g \in {getnode(t, root, None)}})

\* __delitem__, after remove returned r
Removed(t, r) ==
  IF r.err # "ok" THEN [t |-> Forget(r.t), err |-> r.err]
  ELSE IF r.node.flag = Rootflag /\ r.node.validkeys < 1
  THEN Only({[t |-> Forget(cr.t), err |-> cr.err] : cr \in {CollapseRoot(r.t, r.node)}})
  ELSE IF r.node.flag # Rootflag /\ r.node.flag # LeafandRootflag
  THEN [t |-> Forget(r.t), err |-> "ValueError"]
  ELSE IF r.t.length # t.length THEN [t |-> Forget(reset_header(r.t)), err |-> "ok"]
  ELSE [t |-> Forget(r.t), err |-> "ok"]

\* __delitem__ returns [t, err]; remove(key, None) fails on node.flag (line 1207)
delitem(t, key) ==
  IF RootIsNone(t) THEN [t |-> t, err |-> "AttributeError"]
  ELSE Removed(t, remove(t, key, RootNode(t)))

\* find, interior node: the key of the child to descend to
FindKey(node, key) ==
  Only({IF place >= node.validkeys \/ KeyLess(key, node.keys[place + 1])
        THEN (IF place = 0 THEN None ELSE node.keys[place])
        ELSE key :
        place \in {bisect(node.keys, key, 0, node.validkeys)}})

\* find returns [t, err, value]
RECURSIVE find(_, _, _)
find(t, key, node) ==
  IF node.flag \in Interiorflags
  THEN Only({IF g.err # "ok" THEN [t |-> g.t, err |-> g.err, value |-> nilseek]
             ELSE find(g.t, key, g.node) :
             g \in {getnode(t, node, FindKey(node, key))}})
  ELSE Only({[t |-> t, err |-> gv.err, value |-> gv.value] : gv \in {getvalue(node, key)}})

\* __getitem__ returns [t, err, value]
getitem(t, key) ==
  IF RootIsNone(t) THEN [t |-> t, err |-> "ValueError", value |-> nilseek]
  ELSE Only({[t |-> Forget(f.t), err |-> f.err, value |-> f.value] :
             f \in {find(t, key, RootNode(t))}})

\* BplusTree.enable_fifo: the flag is set before Node.enable_fifo checks the size
enable_fifo(t, size) ==
  IF size < MinFifoSize \/ size > 1000000
  THEN [t |-> [t EXCEPT !.fifo_enabled = TRUE], err |-> "ValueError"]
  ELSE [t |-> Forget([t EXCEPT !.fifo_enabled = TRUE,
                               !.fifo = [on |-> TRUE, fifosize |-> size, ff |-> <<>>]]),
        err |-> "ok"]

\* BplusTree.disable_fifo, up to the call of Node.disable_fifo: the flag is cleared and
\* the deferred header is written
disable_header(t) ==
  IF t.dirty
  THEN [reset_header([t EXCEPT !.fifo_enabled = FALSE]) EXCEPT !.dirty = FALSE]
  ELSE [t EXCEPT !.fifo_enabled = FALSE]

\* BplusTree.disable_fifo: the header first, then Node.disable_fifo flushes the cache
disable_fifo(t) ==
  Only({IF t2.fifo.on
        THEN [flush_fifo(t2) EXCEPT !.fifo = [on |-> FALSE, fifosize |-> 0, ff |-> <<>>]]
        ELSE t2 :
        t2 \in {disable_header(t)}})

\* BplusTree(infile, 0, nodesize, keylen).startup() on an empty file
startup(nodesize, keylen) ==
  Only({[file |-> <<linearize(root)>>,
         header |-> [length |-> 0, keylen |-> keylen, nodesize |-> nodesize,
                     root_seek |-> 1, free |-> nilseek],
         length |-> 0, keylen |-> keylen, nodesize |-> nodesize,
         root_seek |-> 1, free |-> nilseek,
         fifo_enabled |-> FALSE, dirty |-> FALSE,
         mem |-> [p \in {1} |-> root],
         dirtynodes |-> {},
         fifo |-> [on |-> FALSE, fifosize |-> 0, ff |-> <<>>]] :
        root \in {NewNode(LeafandRootflag, nodesize, 1)}})

\* BplusTree(infile, position, nodesize, keylen): the object before startup() or open()
NewTree(file, header, nodesize, keylen) ==
  [file |-> file, header |-> header,
   length |-> NoneInt, keylen |-> keylen, nodesize |-> nodesize,
   root_seek |-> nilseek, free |-> nilseek,
   fifo_enabled |-> FALSE, dirty |-> FALSE,
   mem |-> [p \in {} |-> p],
   dirtynodes |-> {},
   fifo |-> [on |-> FALSE, fifosize |-> 0, ff |-> <<>>]]

\* get_parameters: the attributes are read from the header of the file
get_parameters(t) ==
  [t EXCEPT !.length = t.header.length, !.keylen = t.header.keylen,
            !.nodesize = t.header.nodesize, !.root_seek = t.header.root_seek,
            !.free = t.header.free]

\* open: get_parameters, then the root is read from the file
open(t) ==
  Only({Only({[p EXCEPT !.mem = [q \in {p.root_seek} |-> root], !.dirtynodes = {}] :
              root \in {delinearize(p.file[p.root_seek], p.root_seek)}}) :
        p \in {get_parameters(t)}})

\* ------------------------------------- class SBplusTree, caching_BPT
\* putstring: the record goes to the end of the file and its seek is returned; a file
\* that is not open for writing takes no record. The seek of the i-th record is i.
putstring(strs, value, writable) ==
  [strings |-> IF writable THEN Append(strs, value) ELSE strs, seek |-> Len(strs) + 1]

\* getstring returns [err, value]: the record at seek i, IOError where no record starts
getstring(strs, i) ==
  IF i \in 1..Len(strs) THEN [err |-> "ok", value |-> strs[i]]
  ELSE [err |-> "IOError", value |-> ""]

\* SBplusTree.__setitem__ returns [t, strings, err]: the string is written first
sb_setitem(t, strs, key, value) ==
  Only({Only({[t |-> r.t, strings |-> ps.strings, err |-> r.err] :
              r \in {setitem(t, key, ps.seek)}}) :
        ps \in {putstring(strs, value, TRUE)}})

\* SBplusTree.__getitem__ returns [t, err, value]
sb_getitem(t, strs, key) ==
  Only({IF r.err # "ok" THEN [t |-> r.t, err |-> r.err, value |-> ""]
        ELSE Only({[t |-> r.t, err |-> g.err, value |-> g.value] :
                   g \in {getstring(strs, r.value)}}) :
        r \in {getitem(t, key)}})

\* caching_BPT.__getitem__ returns [t, cache, err, value]
caching_getitem(t, cache, key) ==
  IF key \in DOMAIN cache
  THEN [t |-> t, cache |-> cache, err |-> "ok", value |-> cache[key]]
  ELSE Only({[t |-> r.t,
              cache |-> IF r.err = "ok"
                        THEN [k \in (DOMAIN cache) \cup {key} |->
                                 IF k = key THEN r.value ELSE cache[k]]
                        ELSE cache,
              err |-> r.err, value |-> r.value] :
             r \in {getitem(t, key)}})

\* caching_BPT.nope: __setitem__ and __delitem__ of the caching tree
nope(t) == [t |-> t, err |-> "ValueError"]

\* get through a view v returns [t, cache, err, value]
view_getitem(t, strs, v, key) ==
  Only({IF v.kind = "caching_BPT" \/ r.err # "ok" THEN r
        ELSE Only({[t |-> r.t, cache |-> r.cache, err |-> g.err, value |-> g.value] :
                   g \in {getstring(strs, r.value)}}) :
        r \in {caching_getitem(t, v.cache, key)}})

\* put through a view v returns [t, strings, err]: caching_SBPT inherits
\* SBplusTree.__setitem__, which writes the string before the tree refuses the key
view_setitem(t, strs, v, key, value) ==
  IF v.kind = "caching_BPT" THEN [t |-> t, strings |-> strs, err |-> nope(t).err]
  ELSE Only({[t |-> t, strings |-> ps.strings, err |-> nope(t).err] :
             ps \in {putstring(strs, value, v.writable)}})

\* delete through a view v returns [t, strings, err]
view_delitem(t, strs, v, key) == [t |-> t, strings |-> strs, err |-> nope(t).err]

\* ------------------------------------------------ class BplusWalker
\* A walker: its bounds, node and startnode (Node objects), node_index and valid.
current_key(w) == w.node.keys[w.node_index + 1]

current_value(w) == w.node.indices[w.node_index + 1]

\* the upper bound test of first and next
BelowUpper(w, key) ==
  w.keyupper = None \/ KeyLess(key, w.keyupper) \/ (w.includeupper /\ key = w.keyupper)

\* first, "test keyupper"
Upper(w) ==
  IF w.valid /\ w.keyupper # None
  THEN [w EXCEPT !.valid = BelowUpper(w, current_key(w))]
  ELSE w

\* first, "is the key in the node?": no lower bound starts at slot 0 whatever validkeys is
FirstIndex(w) ==
  IF w.keylower = None
  THEN [w EXCEPT !.node = w.startnode, !.node_index = 0, !.valid = TRUE]
  ELSE IF PyIn(w.startnode.keys, w.keylower) /\ w.includelower
  THEN [w EXCEPT !.node = w.startnode,
                 !.node_index = PyIndex(w.startnode.keys, w.keylower),
                 !.valid = PyIndex(w.startnode.keys, w.keylower) < w.startnode.validkeys]
  ELSE [w EXCEPT !.node = w.startnode, !.valid = FALSE]

RECURSIVE first(_, _)
\* first, "look for next": place is where keylower goes among the valid keys
FirstSeek(t, w, place) ==
  IF place < w.node.validkeys
  THEN [t |-> t,
        w |-> Upper([w EXCEPT !.node_index = place,
                              !.valid = KeyLess(w.keylower, w.node.keys[place + 1])
                                        \/ (w.includelower /\ w.node.keys[place + 1] = w.keylower)])]
  ELSE Only({IF nb.found THEN first(nb.t, [w EXCEPT !.startnode = nb.node])
             ELSE [t |-> t, w |-> w] :
             nb \in {nextneighbor(t, w.node)}})

\* first that leaves a walker that is valid where it is (a faulty variant, for comparison)
first_lazy(t, w) ==
  IF w.valid THEN [t |-> t, w |-> w]
  ELSE Only({IF w1.valid THEN [t |-> t, w |-> Upper(w1)]
             ELSE FirstSeek(t, w1, bisect(w1.node.keys, w1.keylower, 0, w1.node.validkeys)) :
             w1 \in {FirstIndex(w)}})

\* first returns [t, w]
first(t, w) ==
  Only({IF w1.valid THEN [t |-> t, w |-> Upper(w1)]
        ELSE FirstSeek(t, w1, bisect(w1.node.keys, w1.keylower, 0, w1.node.validkeys)) :
        w1 \in {FirstIndex(w)}})

\* __init__, "interior node, seek a leaf": the key of the child to descend to
StartKey(keys, keylower) ==
  IF keylower = None THEN None
  ELSE Only({IF place = 0 THEN None
             ELSE IF place > Len(keys) THEN keys[Len(keys)]
             ELSE keys[place] :
             place \in {bisect(keys, keylower, 0, Len(keys))}})

\* the leaf the walker starts at: [t, err, node]
RECURSIVE StartLeaf(_, _, _)
StartLeaf(t, node, keylower) ==
  IF node.flag \in Interiorflags
  THEN Only({IF g.err # "ok" THEN g ELSE StartLeaf(g.t, g.node, keylower) :
             g \in {getnode(t, node, StartKey(get_keys(node), keylower))}})
  ELSE [t |-> t, err |-> "ok", node |-> node]

\* the walker before first(): node_index = None, valid = 0
NewWalker(keylower, includelower, keyupper, includeupper, node) ==
  [keylower |-> keylower, includelower |-> includelower,
   keyupper |-> keyupper, includeupper |-> includeupper,
   node |-> node, startnode |-> node, node_index |-> NoIndex, valid |-> FALSE]

\* BplusWalker(tree, keylower, includelower, keyupper, includeupper): [t, err, w]
walker(t, keylower, includelower, keyupper, includeupper) ==
  Only({IF sl.err # "ok"
        THEN [t |-> sl.t, err |-> sl.err,
              w |-> NewWalker(keylower, includelower, keyupper, includeupper, sl.node)]
        ELSE Only({[t |-> f.t, err |-> "ok", w |-> f.w] :
                   f \in {first(sl.t, NewWalker(keylower, includelower, keyupper,
                                                includeupper, sl.node))}}) :
        sl \in {StartLeaf(t, RootNode(t), keylower)}})

\* next, once the node is settled: the slot nextp is tested
Step(w, nextp) ==
  IF w.node.validkeys <= nextp THEN [w EXCEPT !.valid = FALSE]
  ELSE IF BelowUpper(w, w.node.keys[nextp + 1])
  THEN [w EXCEPT !.node_index = nextp, !.valid = TRUE]
  ELSE [w EXCEPT !.valid = FALSE]

\* next returns [t, w]; called on a valid walker
next(t, w) ==
  IF w.node_index + 1 >= w.node.validkeys
  THEN Only({IF ~nb.found THEN [t |-> t, w |-> [w EXCEPT !.valid = FALSE]]
             ELSE [t |-> nb.t, w |-> Step([w EXCEPT !.node = nb.node], 0)] :
             nb \in {nextneighbor(t, w.node)}})
  ELSE [t |-> t, w |-> Step(w, w.node_index + 1)]


\* ------------------------------------------------------ recopy_tree
\* for i in xrange(part1): totree[walker.current_key()] = walker.current_value(); walker.next()
RECURSIVE CopyDirect(_, _, _, _)
CopyDirect(ft, tt, w, i) ==
  IF i = 0 \/ ~w.valid THEN [ft |-> ft, tt |-> tt, w |-> w, err |-> "ok"]
  ELSE Only({IF s.err # "ok" THEN [ft |-> ft, tt |-> s.t, w |-> w, err |-> s.err]
             ELSE Only({CopyDirect(n.t, s.t, n.w, i - 1) : n \in {next(ft, w)}}) :
             s \in {setitem(tt, current_key(w), current_value(w))}})

\* for (k,v) in defer: totree[k] = v
RECURSIVE CopyDeferred(_, _)
CopyDeferred(tt, defer) ==
  IF defer = <<>> THEN [t |-> tt, err |-> "ok"]
  ELSE Only({IF s.err # "ok" THEN s ELSE CopyDeferred(s.t, Tail(defer)) :
             s \in {setitem(tt, defer[1][1], defer[1][2])}})

\* for i in xrange(part2): defer.append((key, value)); walker.next()
RECURSIVE Defer(_, _, _, _)
Defer(ft, w, i, defer) ==
  IF i <= 0 \/ ~w.valid THEN [ft |-> ft, w |-> w, defer |-> defer]
  ELSE Only({Defer(n.t, n.w, i - 1, Append(defer, <<current_key(w), current_value(w)>>)) :
             n \in {next(ft, w)}})

\* while walker.valid: ...; then the last deferred entries
RECURSIVE CopyLoop(_, _, _, _)
CopyLoop(ft, tt, w, defer) ==
  IF ~w.valid
  THEN Only({[ft |-> ft, tt |-> rest.t, err |-> rest.err] : rest \in {CopyDeferred(tt, defer)}})
  ELSE Only({
    IF c1.err # "ok" THEN [ft |-> c1.ft, tt |-> c1.tt, err |-> c1.err]
    ELSE Only({IF c2.err # "ok" THEN [ft |-> c1.ft, tt |-> c2.t, err |-> c2.err]
               ELSE Only({CopyLoop(c3.ft, c2.t, c3.w, c3.defer) :
                          c3 \in {Defer(c1.ft, c1.w, tt.nodesize \div 2 - 1, <<>>)}}) :
               c2 \in {CopyDeferred(c1.tt, defer)}}) :
    c1 \in {CopyDirect(ft, tt, w, tt.nodesize \div 2 + 1)}})

\* recopy_tree without the finally clause: the destination's cache is left enabled (a
\* faulty variant, used to test C34)
recopy_tree_nofinally(fromtree, totree) ==
  Only({IF e.err # "ok" THEN [ft |-> fromtree, tt |-> e.t, err |-> e.err]
        ELSE Only({IF wk.err # "ok" THEN [ft |-> wk.t, tt |-> e.t, err |-> wk.err]
                   ELSE Only({[ft |-> Forget(c.ft), tt |-> c.tt, err |-> c.err] :
                              c \in {CopyLoop(wk.t, e.t, wk.w, <<>>)}}) :
                   wk \in {walker(fromtree, None, FALSE, None, FALSE)}}) :
        e \in {enable_fifo(totree, DefaultFifoSize)}})

\* recopy_tree returns [ft, tt, err]; finally: totree.disable_fifo()
recopy_tree(fromtree, totree) ==
  Only({IF e.err # "ok" THEN [ft |-> fromtree, tt |-> disable_fifo(e.t), err |-> e.err]
        ELSE Only({IF wk.err # "ok" THEN [ft |-> wk.t, tt |-> disable_fifo(e.t), err |-> wk.err]
                   ELSE Only({[ft |-> Forget(c.ft), tt |-> disable_fifo(c.tt), err |-> c.err] :
                              c \in {CopyLoop(wk.t, e.t, wk.w, <<>>)}}) :
                   wk \in {walker(fromtree, None, FALSE, None, FALSE)}}) :
        e \in {enable_fifo(totree, DefaultFifoSize)}})

\* ------------------------------------ recopy_tree over SBplusTree objects
\* the walker is an SBplusWalker, whose current_value() is getstring(file, seek), and
\* totree[k] = v is SBplusTree.__setitem__; these return [ft, tt, strings, w, err]
RECURSIVE SbCopyDirect(_, _, _, _, _, _)
SbCopyDirect(ft, fstrs, tt, tstrs, w, i) ==
  IF i = 0 \/ ~w.valid THEN [ft |-> ft, tt |-> tt, strings |-> tstrs, w |-> w, err |-> "ok"]
  ELSE Only({
    IF g.err # "ok" THEN [ft |-> ft, tt |-> tt, strings |-> tstrs, w |-> w, err |-> g.err]
    ELSE Only({IF s.err # "ok"
               THEN [ft |-> ft, tt |-> s.t, strings |-> s.strings, w |-> w, err |-> s.err]
               ELSE Only({SbCopyDirect(n.t, fstrs, s.t, s.strings, n.w, i - 1) :
                          n \in {next(ft, w)}}) :
               s \in {sb_setitem(tt, tstrs, current_key(w), g.value)}}) :
    g \in {getstring(fstrs, current_value(w))}})

\* for (k,v) in defer: totree[k] = v, returns [t, strings, err]
RECURSIVE SbCopyDeferred(_, _, _)
SbCopyDeferred(tt, tstrs, defer) ==
  IF defer = <<>> THEN [t |-> tt, strings |-> tstrs, err |-> "ok"]
  ELSE Only({IF s.err # "ok" THEN s ELSE SbCopyDeferred(s.t, s.strings, Tail(defer)) :
             s \in {sb_setitem(tt, tstrs, defer[1][1], defer[1][2])}})

\* for i in xrange(part2): defer.append((key, value)); walker.next(), returns [ft, w, defer, err]
RECURSIVE SbDefer(_, _, _, _, _)
SbDefer(ft, fstrs, w, i, defer) ==
  IF i <= 0 \/ ~w.valid THEN [ft |-> ft, w |-> w, defer |-> defer, err |-> "ok"]
  ELSE Only({
    IF g.err # "ok" THEN [ft |-> ft, w |-> w, defer |-> defer, err |-> g.err]
    ELSE Only({SbDefer(n.t, fstrs, n.w, i - 1, Append(defer, <<current_key(w), g.value>>)) :
               n \in {next(ft, w)}}) :
    g \in {getstring(fstrs, current_value(w))}})

\* while walker.valid: ...; then the last deferred entries, returns [ft, tt, strings, err]
RECURSIVE SbCopyLoop(_, _, _, _, _, _)
SbCopyLoop(ft, fstrs, tt, tstrs, w, defer) ==
  IF ~w.valid
  THEN Only({[ft |-> ft, tt |-> rest.t, strings |-> rest.strings, err |-> rest.err] :
             rest \in {SbCopyDeferred(tt, tstrs, defer)}})
  ELSE Only({
    IF c1.err # "ok" THEN [ft |-> c1.ft, tt |-> c1.tt, strings |-> c1.strings, err |-> c1.err]
    ELSE Only({
      IF c2.err # "ok" THEN [ft |-> c1.ft, tt |-> c2.t, strings |-> c2.strings, err |-> c2.err]
      ELSE Only({IF c3.err # "ok"
                 THEN [ft |-> c3.ft, tt |-> c2.t, strings |-> c2.strings, err |-> c3.err]
                 ELSE SbCopyLoop(c3.ft, fstrs, c2.t, c2.strings, c3.w, c3.defer) :
                 c3 \in {SbDefer(c1.ft, fstrs, c1.w, tt.nodesize \div 2 - 1, <<>>)}}) :
      c2 \in {SbCopyDeferred(c1.tt, c1.strings, defer)}}) :
    c1 \in {SbCopyDirect(ft, fstrs, tt, tstrs, w, tt.nodesize \div 2 + 1)}})

\* recopy_tree(fromtree, totree) on SBplusTree objects returns [ft, tt, strings, err];
\* finally: totree.disable_fifo()
sb_recopy_tree(fromtree, fstrs, totree, tstrs) ==
  Only({
    IF e.err # "ok"
    THEN [ft |-> fromtree, tt |-> disable_fifo(e.t), strings |-> tstrs, err |-> e.err]
    ELSE Only({
      IF wk.err # "ok"
      THEN [ft |-> wk.t, tt |-> disable_fifo(e.t), strings |-> tstrs, err |-> wk.err]
      ELSE Only({[ft |-> Forget(c.ft), tt |-> disable_fifo(c.tt), strings |-> c.strings,
                  err |-> c.err] :
                 c \in {SbCopyLoop(wk.t, fstrs, e.t, tstrs, wk.w, <<>>)}}) :
      wk \in {walker(fromtree, None, FALSE, None, FALSE)}}) :
    e \in {enable_fifo(totree, DefaultFifoSize)}})

\* ------------------------------------------------------------ class dbm
\* a dbm object is [tree, strings, length, lengthrecord, fileflag, closed]: the SBplusTree,
\* the string records of its file, self.length, and the length record at the start of the file
\* myhash: result = 775 + len(s)*1001; for c in s: result = (result*253 + ord(c)*113) % bignum
RECURSIVE HashChars(_, _)
HashChars(result, s) ==
  IF s = <<>> THEN result
  ELSE HashChars((result * 253 + s[1] * 113) % bignum, Tail(s))

myhash(s) == HashChars(775 + Len(s) * 1001, s)

\* dbm.hash: dumps(h)[1:], the four bytes of the integer, the lowest first
hash(item) ==
  Only({<<h % 256, (h \div 256) % 256, (h \div 65536) % 256, h \div 16777216>> :
        h \in {myhash(item)}})

\* the dictionary {}
NoPairs == [k \in {} |-> ""]

\* dbm(filename, "c"): the length record 0, a tree started after it, the cache enabled
dbm_create ==
  Only({[tree |-> e.t, strings |-> <<>>, length |-> 0, lengthrecord |-> 0,
         fileflag |-> "c", closed |-> FALSE] :
        e \in {enable_fifo(startup(DbmNodeSize, intsize - 1), DbmNodeSize + 3)}})

\* dbm(filename, flag) for flag "r" or "w" on the file of the closed dbm d: the length is
\* loaded from the length record, the tree is opened from its header, the cache enabled
dbm_open(d, flag) ==
  Only({[tree |-> e.t, strings |-> d.strings, length |-> d.lengthrecord,
         lengthrecord |-> d.lengthrecord, fileflag |-> flag, closed |-> FALSE] :
        e \in {enable_fifo(open(NewTree(d.tree.file, d.tree.header, NoneInt, NoneInt)),
                           DbmNodeSize + 3)}})

\* dbm.close: disable_fifo, 'negative len?', the length record rewritten for flags c and w
dbm_close(d) ==
  IF d.closed THEN [d |-> d, err |-> "ok"]
  ELSE Only({IF d.length < 0 THEN [d |-> [d EXCEPT !.tree = t], err |-> "ValueError"]
             ELSE [d |-> [d EXCEPT !.tree = t, !.closed = TRUE,
                                   !.lengthrecord = IF d.fileflag \in {"c", "w"}
                                                    THEN d.length ELSE d.lengthrecord],
                   err |-> "ok"] :
             t \in {disable_fifo(d.tree)}})

\* dbm.pairs returns [t, err, pairs]: the bucket of the hash, {} on KeyError
pairs(d, h) ==
  Only({IF r.err = "KeyError" THEN [t |-> r.t, err |-> "ok", pairs |-> NoPairs]
        ELSE IF r.err # "ok" THEN [t |-> r.t, err |-> r.err, pairs |-> NoPairs]
        ELSE [t |-> r.t, err |-> "ok", pairs |-> r.value] :
        r \in {sb_getitem(d.tree, d.strings, h)}})

\* dbm.setpairs returns [d, err]: self.tree[hash] = dumps(pairs)
setpairs(d, h, prs) ==
  Only({[d |-> [d EXCEPT !.tree = s.t, !.strings = s.strings], err |-> s.err] :
        s \in {sb_setitem(d.tree, d.strings, h, prs)}})

\* dbm.__getitem__ returns [d, err, value]
dbm_getitem(d, item) ==
  Only({IF p.err # "ok" THEN [d |-> [d EXCEPT !.tree = p.t], err |-> p.err, value |-> ""]
        ELSE IF item \notin DOMAIN p.pairs
        THEN [d |-> [d EXCEPT !.tree = p.t], err |-> "KeyError", value |-> ""]
        ELSE [d |-> [d EXCEPT !.tree = p.t], err |-> "ok", value |-> p.pairs[item]] :
        p \in {pairs(d, hash(item))}})

\* dbm.__setitem__ with the bucket replaced by {item: value} instead of updated
dbm_setitem_alone(d, item, value) ==
  Only({IF p.err # "ok" THEN [d |-> [d EXCEPT !.tree = p.t], err |-> p.err]
        ELSE setpairs([d EXCEPT !.tree = p.t,
                                !.length = IF item \in DOMAIN p.pairs THEN @ ELSE @ + 1],
                      hash(item),
                      [k \in {item} |-> value]) :
        p \in {pairs(d, hash(item))}})

\* dbm.__setitem__ returns [d, err]: the length is raised before setpairs is called
dbm_setitem(d, item, value) ==
  Only({IF p.err # "ok" THEN [d |-> [d EXCEPT !.tree = p.t], err |-> p.err]
        ELSE setpairs([d EXCEPT !.tree = p.t,
                                !.length = IF item \in DOMAIN p.pairs THEN @ ELSE @ + 1],
                      hash(item),
                      [k \in (DOMAIN p.pairs) \cup {item} |->
                         IF k = item THEN value ELSE p.pairs[k]]) :
        p \in {pairs(d, hash(item))}})

\* del self.tree[h] and the length lowered, returns [d, err]
DelBucket(d, h) ==
  Only({[d |-> [d EXCEPT !.tree = r.t, !.length = IF r.err = "ok" THEN @ - 1 ELSE @],
         err |-> r.err] :
        r \in {delitem(d.tree, h)}})

\* setpairs of what is left of the bucket and the length lowered, returns [d, err]
SetBucket(d, h, prs) ==
  Only({[d |-> [s.d EXCEPT !.length = IF s.err = "ok" THEN @ - 1 ELSE @], err |-> s.err] :
        s \in {setpairs(d, h, prs)}})

\* dbm.__delitem__ returns [d, err]: del pairs[item] raises KeyError for an absent item
dbm_delitem(d, item) ==
  Only({IF p.err # "ok" THEN [d |-> [d EXCEPT !.tree = p.t], err |-> p.err]
        ELSE IF item \notin DOMAIN p.pairs
        THEN [d |-> [d EXCEPT !.tree = p.t], err |-> "KeyError"]
        ELSE IF DOMAIN p.pairs # {item}
        THEN SetBucket([d EXCEPT !.tree = p.t], hash(item),
                       [k \in (DOMAIN p.pairs) \ {item} |-> p.pairs[k]])
        ELSE DelBucket([d EXCEPT !.tree = p.t], hash(item)) :
        p \in {pairs(d, hash(item))}})

\* the loop of dbm.keys returns [t, err, keys, count]: the keys of every bucket the walker
\* visits are appended to result; keys is their set and count is len(result)
RECURSIVE KeysLoop(_, _, _, _, _)
KeysLoop(t, strs, w, keys, count) ==
  IF ~w.valid THEN [t |-> t, err |-> "ok", keys |-> keys, count |-> count]
  ELSE Only({
    IF g.err # "ok" THEN [t |-> t, err |-> g.err, keys |-> keys, count |-> count]
    ELSE Only({KeysLoop(n.t, strs, n.w, keys \cup DOMAIN g.value,
                        count + Cardinality(DOMAIN g.value)) :
               n \in {next(t, w)}}) :
    g \in {getstring(strs, current_value(w))}})

\* dbm.keys returns [d, err, keys, count]: IndexError 'bad tree length' when len(result)
\* is not self.length
dbm_keys(d) ==
  Only({
    IF wk.err # "ok"
    THEN [d |-> [d EXCEPT !.tree = wk.t], err |-> wk.err, keys |-> {}, count |-> 0]
    ELSE Only({[d |-> [d EXCEPT !.tree = Forget(l.t)],
                err |-> IF l.err # "ok" THEN l.err
                        ELSE IF l.count # d.length THEN "IndexError" ELSE "ok",
                keys |-> l.keys, count |-> l.count] :
               l \in {KeysLoop(wk.t, d.strings, wk.w, {}, 0)}}) :
    wk \in {walker(d.tree, None, FALSE, None, FALSE)}})

\* dbm.copy(tofilename, "c") returns [d, err, other]: other = dbm(tofilename, "c"), then
\* recopy_tree(self.tree, other.tree), other.length = self.length and
\* other.tree.enable_fifo(other.nodesize+3)
dbm_copy(d) ==
  Only({
    IF rc.err # "ok"
    THEN [d |-> [d EXCEPT !.tree = rc.ft], err |-> rc.err,
          other |-> [dbm_create EXCEPT !.tree = rc.tt, !.strings = rc.strings]]
    ELSE Only({[d |-> [d EXCEPT !.tree = rc.ft], err |-> e.err,
                other |-> [dbm_create EXCEPT !.tree = e.t, !.strings = rc.strings,
                                             !.length = d.length]] :
               e \in {enable_fifo(rc.tt, DbmNodeSize + 3)}}) :
    rc \in {sb_recopy_tree(d.tree, d.strings, dbm_create.tree, dbm_create.strings)}})

\* ------------------------------------------------------------ state
VARIABLES
  file,          \* the node records of the index file
  header,        \* the header record of the index file
  length, keylen, nodesize, root_seek, free, fifo_enabled, dirty,   \* BplusTree attributes
  mem,           \* the Node objects held: self.root and the cached nodes
  dirtynodes,    \* positions of the Node objects whose dirty attribute is set
  fifo,          \* the Node_Fifo of self.root
  totree,        \* the destination tree of the last recopy_tree, <<>> when there is none
  last,          \* the last call and how it ended
  shadow,        \* history: the value of the last put of each key not deleted since
  reenabled,     \* history: some enable_fifo replaced a cache that was in use
  strings,       \* the string records putstring appended to the file, in order
  view,          \* the caching view open on the file: its class, file mode and cache
  walk,          \* the BplusWalker in use, the pair it was at when made, and its last call
  dbms,          \* the dbm d over the file: its attributes, its copy, and its last call
  state, hnum, nreceives, client, request_q, current_i,   \* the locals of paxos() of each server
  alive,         \* the paxos coroutine of each server has not ended with an exception
  learned,       \* the commands each server sent to its learner, in order
  net,           \* the datagrams sent and not yet received, a bag of [to, addr, data]
  nrequests,     \* the number of requests the clients have sent
  nreceived,     \* the number of datagrams the servers have received
  bcasts,        \* history: the prepare and accept messages each server broadcast, in order
  arrived,       \* history: the requests each server received, in order
  taken          \* history: the requests each server started to prepare, in order

\* the state of the wrappers around the tree
\* the state of the paxos servers and their sockets
pax == <<state, hnum, nreceives, client, request_q, current_i, alive, learned, net, nrequests,
         nreceived, bcasts, arrived, taken>>

ext == <<strings, view, walk, dbms, pax>>

vars == <<file, header, length, keylen, nodesize, root_seek, free, fifo_enabled, dirty,
          mem, dirtynodes, fifo, totree, last, shadow, reenabled, strings, view, walk, dbms,
          state, hnum, nreceives, client, request_q, current_i, alive, learned, net, nrequests,
          nreceived, bcasts, arrived, taken>>

\* the tree object as a record
Tree ==
  [file |-> file, header |-> header, length |-> length, keylen |-> keylen,
   nodesize |-> nodesize, root_seek |-> root_seek, free |-> free,
   fifo_enabled |-> fifo_enabled, dirty |-> dirty, mem |-> mem,
   dirtynodes |-> dirtynodes, fifo |-> fifo]

SetTree(t) ==
  /\ file' = t.file
  /\ header' = t.header
  /\ length' = t.length
  /\ keylen' = t.keylen
  /\ nodesize' = t.nodesize
  /\ root_seek' = t.root_seek
  /\ free' = t.free
  /\ fifo_enabled' = t.fifo_enabled
  /\ dirty' = t.dirty
  /\ mem' = t.mem
  /\ dirtynodes' = t.dirtynodes
  /\ fifo' = t.fifo


\* ---------------------------------------- what a tree holds (decoding)
\* the node at a position as the engine sees it (its object if it holds one) or as on disk
NodeView(t, disk, position) ==
  IF ~disk /\ position \in DOMAIN t.mem THEN t.mem[position]
  ELSE delinearize(t.file[position], position)

\* the (key, value) pairs of the valid slots of a leaf
LeafEntries(node) ==
  [j \in 1..PyMax(node.validkeys, 0) |-> <<node.keys[j], node.indices[j]>>]

RECURSIVE ConcatEntries(_, _, _, _, _)
RECURSIVE SubtreeEntries(_, _, _, _)
\* the pairs of the leaves below position, left to right (depth bounds the descent)
SubtreeEntries(t, disk, position, depth) ==
  LET node == NodeView(t, disk, position)
  IN  IF position < 1 \/ position > Len(t.file) \/ depth = 0 THEN <<>>
      ELSE IF node.flag \in Leafflags THEN LeafEntries(node)
      ELSE IF node.flag \in Interiorflags THEN ConcatEntries(t, disk, node, 1, depth - 1)
      ELSE <<>>

ConcatEntries(t, disk, node, i, depth) ==
  IF i > node.validkeys + 1 THEN <<>>
  ELSE SubtreeEntries(t, disk, node.indices[i], depth) \o ConcatEntries(t, disk, node, i + 1, depth)

\* the pairs the tree object holds, and the pairs a reader of the file finds
LiveEntries(t) == SubtreeEntries(t, FALSE, t.root_seek, Len(t.file))
DiskEntries(t) == SubtreeEntries(t, TRUE, t.header.root_seek, Len(t.file))

LiveKeys(t) == {LiveEntries(t)[i][1] : i \in 1..Len(LiveEntries(t))}

\* while walker.valid: emit (current_key(), current_value()); walker.next()
RECURSIVE Emit(_, _, _)
Emit(t, w, fuel) ==
  IF ~w.valid \/ fuel = 0 THEN <<>>
  ELSE Only({<<<<current_key(w), current_value(w)>>>> \o Emit(n.t, n.w, fuel - 1) :
             n \in {next(t, w)}})

\* what a walker with the given bounds emits from construction until valid is false
Walk(t, keylower, includelower, keyupper, includeupper) ==
  Only({IF wk.err # "ok" THEN <<>> ELSE Emit(wk.t, wk.w, Len(t.file) * t.nodesize + 1) :
        wk \in {walker(t, keylower, includelower, keyupper, includeupper)}})

\* ------------------------------------------------ the shape of a tree
ValidPosition(t, p) == p \in 1..Len(t.file)

RECURSIVE Below(_, _, _)
\* the positions of the nodes at and below position p (depth bounds the descent)
Below(t, p, depth) ==
  IF ~ValidPosition(t, p) \/ depth = 0 THEN {}
  ELSE Only({{p} \cup (IF node.flag \in Interiorflags
                       THEN UNION {Below(t, node.indices[i], depth - 1) :
                                   i \in 1..(node.validkeys + 1)}
                       ELSE {}) :
             node \in {NodeView(t, FALSE, p)}})

\* the positions of the nodes the tree reaches from its root
LiveNodes(t) == Below(t, t.root_seek, Len(t.file))

RECURSIVE LeftmostLeaf(_, _, _)
\* the position of the leaf under the first child of every node from p down
LeftmostLeaf(t, p, depth) ==
  IF ~ValidPosition(t, p) \/ depth = 0 THEN nilseek
  ELSE IF NodeView(t, FALSE, p).flag \in Interiorflags
  THEN LeftmostLeaf(t, NodeView(t, FALSE, p).indices[1], depth - 1)
  ELSE p

RECURSIVE Chain(_, _, _, _)
\* the positions met from p on following indices[slot] up to the sentinel -1; a chain
\* that leaves the file or does not end within fuel steps ends with position 0
Chain(t, p, slot, fuel) ==
  IF p = nilseek THEN <<>>
  ELSE IF ~ValidPosition(t, p) \/ fuel = 0 THEN <<0>>
  ELSE <<p>> \o Chain(t, NodeView(t, FALSE, p).indices[slot], slot, fuel - 1)

\* the leaves met from the leftmost leaf on following indices[size]
LeafChain(t) == Chain(t, LeftmostLeaf(t, t.root_seek, Len(t.file)), t.nodesize + 1, Len(t.file))

\* the nodes met from the head of the free list on following indices[0]
FreeChain(t) == Chain(t, t.free, 1, Len(t.file))

RECURSIVE ChainEntries(_, _)
\* the (key, value) pairs of the valid slots of the nodes of a chain, in its order
ChainEntries(t, chain) ==
  IF chain = <<>> THEN <<>>
  ELSE IF Head(chain) = 0 THEN ChainEntries(t, Tail(chain))
  ELSE LeafEntries(NodeView(t, FALSE, Head(chain))) \o ChainEntries(t, Tail(chain))

SeqSet(s) == {s[i] : i \in 1..Len(s)}

\* the keys of the pairs are strictly ascending
Ascending(e) == \A i \in 1..(Len(e) - 1) : KeyLess(e[i][1], e[i + 1][1])

\* ---------------------------------------------------------- actions
NoShadow == [k \in {} |-> 0]

\* the record of a call that ended with err and left the tree t:
\*   prev   the value of the successful put of the same key just before this put, else nilseek
\*   live   the key was in a valid slot of a leaf when the call began
\*   same   the call left every field of the tree, the file and the node objects as they were
\*   grew   by how much the call changed length
Call(op, key, value, err, t) ==
  [op |-> op, key |-> key, value |-> value, err |-> err,
   prev |-> IF op = "put" /\ last.op = "put" /\ last.err = "ok" /\ last.key = key
            THEN last.value ELSE nilseek,
   live |-> key \in LiveKeys(Tree),
   same |-> t = Tree,
   grew |-> t.length - length]

StartCall ==
  [op |-> "startup", key |-> None, value |-> nilseek, err |-> "ok",
   prev |-> nilseek, live |-> FALSE, same |-> TRUE, grew |-> 0]

InitTree(t) ==
  /\ file = t.file
  /\ header = t.header
  /\ length = t.length
  /\ keylen = t.keylen
  /\ nodesize = t.nodesize
  /\ root_seek = t.root_seek
  /\ free = t.free
  /\ fifo_enabled = t.fifo_enabled
  /\ dirty = t.dirty
  /\ mem = t.mem
  /\ dirtynodes = t.dirtynodes
  /\ fifo = t.fifo

\* no string record in the file, no caching view
NoView == [kind |-> "none", writable |-> FALSE, cache |-> NoShadow]

\* what a walker shows: valid and, when valid, current_key() and current_value()
Observed(w) ==
  [valid |-> w.valid,
   key |-> IF w.valid THEN current_key(w) ELSE None,
   value |-> IF w.valid THEN current_value(w) ELSE nilseek]

\* no walker on the tree
NoWalker ==
  [op |-> "none", err |-> "ok",
   w |-> NewWalker(None, FALSE, None, FALSE, NewNode(Leafflag, 1, nilseek)),
   made |-> [valid |-> FALSE, key |-> None, value |-> nilseek], steps |-> 0]

\* ------------------------------------------------------- paxos.py, ipc.py
\* servers[k] is the address k; the address of the client of request r is negative
Servers == 0..(NumServers - 1)
\* ipc.client sends to servers[1]; another client may send to another server
Proposers == {1, 2}
ClientAddr(r) == -(r + 1)

\* a datagram: json.dumps(data) sent from the socket of addr to the socket of to. data is
\* the dictionary, a record of its keys: json.loads(json.dumps(d)) has the keys and the
\* integer and string values of d
Datagram(to, addr, data) == [to |-> to, addr |-> addr, data |-> data]

\* ipc.bcast: for s in servers: sock.sendto(msg, s)
bcast(self, msg) == {Datagram(s, self, msg) : s \in Servers}

\* the locals of a paxos coroutine as it reaches its first yield
StartLocals ==
  [state |-> "waiting", hnum |-> 0, nreceives |-> 0, client |-> NoneInt,
   request_q |-> <<>>, current_i |-> NoneInt]

\* what one pass of the loop body leaves: the locals, the datagrams sent, what was
\* broadcast, the commands sent to the learner, the request taken, and the exception
Pass(c, out, bc, learn, took, err) ==
  [c |-> c, out |-> out, bc |-> bc, learn |-> learn, took |-> took, err |-> err]

\* lines 48-63: a request is queued unless the state is 'waiting'; in 'waiting' it is
\* prepared with the number hnum + 1
on_request(c, data, addr, self) ==
  IF c.state # "waiting"
  THEN Pass([c EXCEPT !.request_q = Append(@, [data |-> data, addr |-> addr])],
            {}, <<>>, <<>>, <<>>, "ok")
  ELSE Only({Pass([c EXCEPT !.client = addr, !.state = "preparing", !.nreceives = 0,
                            !.current_i = c.hnum + 1],
                  bcast(self, prep_msg), <<prep_msg>>, <<>>, <<data.request>>, "ok") :
             prep_msg \in {[protocol |-> "paxos", prepare |-> data.request, i |-> c.hnum + 1]}})

\* lines 75-81 and 94-101: data['i'] of a nack is looked up before it is compared
on_nack(c, data) ==
  IF "i" \notin DOMAIN data THEN Pass(c, {}, <<>>, <<>>, <<>>, "KeyError")
  ELSE IF data.i # c.current_i THEN Pass(c, {}, <<>>, <<>>, <<>>, "ok")
  ELSE Pass([c EXCEPT !.state = "waiting", !.nreceives = 0], {}, <<>>, <<>>, <<>>, "ok")

\* lines 64-74: the state is 'preparing'; the accept message carries hnum
on_preparing(c, data, self) ==
  IF "promise" \in DOMAIN data /\ data.i = c.current_i
  THEN IF c.nreceives + 1 > NumServers \div 2
       THEN Only({Pass([c EXCEPT !.state = "accepting", !.nreceives = 0],
                       bcast(self, accept_msg), <<accept_msg>>, <<>>, <<>>, "ok") :
                  accept_msg \in {[protocol |-> "paxos", accept |-> data.promise, i |-> c.hnum]}})
       ELSE Pass([c EXCEPT !.nreceives = @ + 1], {}, <<>>, <<>>, <<>>, "ok")
  ELSE IF "nack" \in DOMAIN data THEN on_nack(c, data)
  ELSE Pass(c, {}, <<>>, <<>>, <<>>, "ok")

\* lines 82-93: the state is 'accepting'; success is sent to the client
on_accepting(c, data, self) ==
  IF "accepted" \in DOMAIN data /\ data.i = c.current_i
  THEN IF c.nreceives + 1 > NumServers \div 2
       THEN Pass([c EXCEPT !.state = "waiting", !.nreceives = 0, !.current_i = NoneInt,
                           !.client = NoneInt],
                 {Datagram(c.client, self, [protocol |-> "paxos", success |-> TRUE])},
                 <<>>, <<>>, <<>>, "ok")
       ELSE Pass([c EXCEPT !.nreceives = @ + 1], {}, <<>>, <<>>, <<>>, "ok")
  ELSE IF "nack" \in DOMAIN data THEN on_nack(c, data)
  ELSE Pass(c, {}, <<>>, <<>>, <<>>, "ok")

\* lines 48-101, the proposer's part of the loop body
proposer(c, data, addr, self) ==
  IF "request" \in DOMAIN data THEN on_request(c, data, addr, self)
  ELSE IF c.state = "preparing" THEN on_preparing(c, data, self)
  ELSE IF c.state = "accepting" THEN on_accepting(c, data, self)
  ELSE Pass(c, {}, <<>>, <<>>, <<>>, "ok")

\* lines 103-125, the acceptor's part of the loop body: [c, out, learn]
acceptor(c, data, addr, self) ==
  IF "prepare" \in DOMAIN data
  THEN IF data.i > c.hnum
       THEN [c |-> [c EXCEPT !.hnum = data.i],
             out |-> {Datagram(addr, self, [protocol |-> "paxos", promise |-> data.prepare,
                                            i |-> data.i])},
             learn |-> <<>>]
       ELSE [c |-> c,
             out |-> {Datagram(addr, self, [protocol |-> "paxos", nack |-> data.i])},
             learn |-> <<>>]
  ELSE IF "accept" \in DOMAIN data
  THEN IF data.i = c.hnum
       THEN [c |-> c,
             out |-> {Datagram(addr, self, [protocol |-> "paxos", accepted |-> data.accept,
                                            i |-> c.hnum])},
             learn |-> <<data.accept>>]
       ELSE [c |-> c,
             out |-> {Datagram(addr, self, [protocol |-> "paxos", nack |-> data.i])},
             learn |-> <<>>]
  ELSE [c |-> c, out |-> {}, learn |-> <<>>]

\* one pass of the loop body, lines 48-125: a queued request continues the loop, an
\* exception ends the coroutine before the acceptor's part
body(c, data, addr, self) ==
  Only({IF p.err # "ok" \/ ("request" \in DOMAIN data /\ c.state # "waiting") THEN p
        ELSE Only({Pass(a.c, p.out \cup a.out, p.bc, a.learn, p.took, "ok") :
                   a \in {acceptor(p.c, data, addr, self)}}) :
        p \in {proposer(c, data, addr, self)}})

\* paxos_instance.send((data, sock, addr)): the loop from one yield to the next; a queued
\* request is taken at the top of the loop whenever the state is 'waiting' (lines 41-46)
RECURSIVE paxos(_, _, _, _)
paxos(c, data, addr, self) ==
  Only({IF p.err # "ok" \/ ~(Len(p.c.request_q) > 0 /\ p.c.state = "waiting") THEN p
        ELSE Only({Pass(q.c, p.out \cup q.out, p.bc \o q.bc, p.learn \o q.learn,
                        p.took \o q.took, q.err) :
                   q \in {paxos([p.c EXCEPT !.request_q = Tail(@)],
                                Head(p.c.request_q).data, Head(p.c.request_q).addr, self)}}) :
        p \in {body(c, data, addr, self)}})

\* the locals of the coroutine of server s
Locals(s) ==
  [state |-> state[s], hnum |-> hnum[s], nreceives |-> nreceives[s], client |-> client[s],
   request_q |-> request_q[s], current_i |-> current_i[s]]

\* the drivers started, each coroutine at its first yield, nothing sent
InitPaxos ==
  /\ state = [s \in Servers |-> StartLocals.state]
  /\ hnum = [s \in Servers |-> StartLocals.hnum]
  /\ nreceives = [s \in Servers |-> StartLocals.nreceives]
  /\ client = [s \in Servers |-> StartLocals.client]
  /\ request_q = [s \in Servers |-> StartLocals.request_q]
  /\ current_i = [s \in Servers |-> StartLocals.current_i]
  /\ alive = [s \in Servers |-> TRUE]
  /\ learned = [s \in Servers |-> <<>>]
  /\ net = EmptyBag
  /\ nrequests = 0
  /\ nreceived = 0
  /\ bcasts = [s \in Servers |-> <<>>]
  /\ arrived = [s \in Servers |-> <<>>]
  /\ taken = [s \in Servers |-> <<>>]

\* no dbm over the file
NoDbms ==
  [made |-> FALSE, length |-> 0, lengthrecord |-> 0, fileflag |-> "c", closed |-> FALSE,
   copied |-> FALSE, other |-> <<>>, closedas |-> <<>>, call |-> <<>>]

InitExt ==
  /\ strings = <<>>
  /\ view = NoView
  /\ walk = NoWalker
  /\ dbms = NoDbms
  /\ InitPaxos

\* the state after BplusTree(file, 0, nodesize, keylen).startup() on an empty file
Init ==
  /\ \E n \in NodeSizes : \E t \in {startup(n, KeyLen)} : InitTree(t)
  /\ totree = <<>>
  /\ last = StartCall
  /\ shadow = NoShadow
  /\ reenabled = FALSE
  /\ InitExt

\* tree[key] = value
Put(key, value) ==
  \E r \in {setitem(Tree, key, value)} :
      /\ SetTree(r.t)
      /\ last' = Call("put", key, value, r.err, r.t)
      /\ shadow' = IF r.err = "ok"
                   THEN [k \in (DOMAIN shadow) \cup {key} |-> IF k = key THEN value ELSE shadow[k]]
                   ELSE shadow
      /\ totree' = <<>>
      /\ UNCHANGED reenabled
      /\ UNCHANGED ext

\* del tree[key]
Delete(key) ==
  \E r \in {delitem(Tree, key)} :
      /\ SetTree(r.t)
      /\ last' = Call("delete", key, nilseek, r.err, r.t)
      /\ shadow' = IF r.err = "ok"
                   THEN [k \in (DOMAIN shadow) \ {key} |-> shadow[k]]
                   ELSE shadow
      /\ totree' = <<>>
      /\ UNCHANGED reenabled
      /\ UNCHANGED ext

\* tree[key]: a read, which the history does not record
Get(key) ==
  \E r \in {getitem(Tree, key)} :
      /\ SetTree(r.t)
      /\ UNCHANGED <<totree, last, shadow, reenabled>>
      /\ UNCHANGED ext

\* tree.enable_fifo(size)
EnableFifo(size) ==
  \E r \in {enable_fifo(Tree, size)} :
      /\ SetTree(r.t)
      /\ last' = Call("enable_fifo", None, size, r.err, r.t)
      /\ reenabled' = (reenabled \/ (r.err = "ok" /\ fifo.on))
      /\ totree' = <<>>
      /\ UNCHANGED shadow
      /\ UNCHANGED ext

\* tree.disable_fifo(); the call records how many cached nodes were dirty
DisableFifo ==
  \E t \in {disable_fifo(Tree)} :
      /\ SetTree(t)
      /\ last' = Call("disable_fifo", None, Cardinality(dirtynodes), "ok", t)
      /\ totree' = <<>>
      /\ UNCHANGED <<shadow, reenabled>>
      /\ UNCHANGED ext

\* recopy_tree(tree, totree) with totree freshly created with the same nodesize and keylen
Recopy ==
  \E r \in {recopy_tree(Tree, startup(nodesize, keylen))} :
      /\ SetTree(r.ft)
      /\ last' = Call("recopy", None, nilseek, r.err, r.ft)
      /\ totree' = r.tt
      /\ UNCHANGED <<shadow, reenabled>>
      /\ UNCHANGED ext

\* the operations on a tree opened without the cache
Next ==
  \/ \E key \in InputKeys, value \in InputValues : Put(key, value)
  \/ \E key \in InputKeys : Delete(key)
  \/ \E key \in InputKeys : Get(key)

Spec == Init /\ [][Next]_vars

\* the same operations, and copies of the tree into a new file
NextRecopy ==
  \/ Next
  \/ Recopy

SpecRecopy == Init /\ [][NextRecopy]_vars

\* the operations with the cache switched on and off between them
NextFifo ==
  \/ \E key \in FifoKeys, value \in FifoValues : Put(key, value)
  \/ \E key \in FifoKeys : Delete(key)
  \/ \E key \in FifoKeys : Get(key)
  \/ \E size \in FifoSizes : EnableFifo(size)
  \/ DisableFifo

SpecFifo == Init /\ [][NextFifo]_vars

\* tree = BplusTree(file) or BplusTree(file, 0, nodesize, keylen): a new object on the
\* same file, not yet opened (the parameters are None unless given)
NewObject(given) ==
  \E t \in {IF given THEN NewTree(file, header, header.nodesize, header.keylen)
                     ELSE NewTree(file, header, NoneInt, NoneInt)} :
      /\ SetTree(t)
      /\ last' = Call("new", None, nilseek, "ok", t)
      /\ totree' = <<>>
      /\ UNCHANGED <<shadow, reenabled>>
      /\ UNCHANGED ext

\* tree.open()
Open ==
  \E t \in {open(Tree)} :
      /\ SetTree(t)
      /\ last' = Call("open", None, nilseek, "ok", t)
      /\ totree' = <<>>
      /\ UNCHANGED <<shadow, reenabled>>
      /\ UNCHANGED ext

\* the operations on tree objects that may not have been opened yet
NextUnopened ==
  \/ Next
  \/ \E given \in BOOLEAN : NewObject(given)
  \/ Open

SpecUnopened == Init /\ [][NextUnopened]_vars

\* the record of a call through a wrapper:
\*   same    the call left the tree object, the file and its string records as they were
\*   before  what a lookup of each key through the view returned when the call began
ViewLookup(key) ==
  Only({[err |-> r.err, value |-> r.value] : r \in {view_getitem(Tree, strings, view, key)}})

ViewCall(op, key, value, err, t, strs) ==
  [op |-> op, key |-> key, value |-> value, err |-> err,
   same |-> (t = Tree /\ strs = strings),
   before |-> [k \in ValidKeys |-> ViewLookup(k)]]

\* SBplusTree: tree[key] = value, while no view is open
SPut(key, value) ==
  /\ view.kind = "none"
  /\ Len(strings) < MaxStrings
  /\ \E r \in {sb_setitem(Tree, strings, key, value)} :
        /\ SetTree(r.t)
        /\ strings' = r.strings
        /\ last' = ViewCall("sput", key, value, r.err, r.t, r.strings)
  /\ UNCHANGED <<totree, shadow, reenabled, view, walk, dbms, pax>>

\* SBplusTree: del tree[key], while no view is open
SDelete(key) ==
  /\ view.kind = "none"
  /\ \E r \in {delitem(Tree, key)} :
        /\ SetTree(r.t)
        /\ last' = ViewCall("sdelete", key, "", r.err, r.t, strings)
  /\ UNCHANGED <<totree, shadow, reenabled, strings, view, walk, dbms, pax>>

\* f = open(name, "rb" or "r+b"); B = caching_BPT(f) or caching_SBPT(f); B.open()
OpenView(kind, writable) ==
  /\ view.kind = "none"
  /\ \E t \in {open(NewTree(file, header, NoneInt, NoneInt))} :
        /\ SetTree(t)
        /\ last' = ViewCall("open_view", None, "", "ok", t, strings)
  /\ view' = [kind |-> kind, writable |-> writable, cache |-> NoShadow]
  /\ UNCHANGED <<totree, shadow, reenabled, strings, walk, dbms, pax>>

\* B[key] through the view: a read, which the history does not record
ViewGet(key) ==
  /\ view.kind # "none"
  /\ \E r \in {view_getitem(Tree, strings, view, key)} :
        /\ SetTree(r.t)
        /\ view' = [view EXCEPT !.cache = r.cache]
  /\ UNCHANGED <<totree, last, shadow, reenabled, strings, walk, dbms, pax>>

\* B[key] = value through the view
ViewPut(key, value) ==
  /\ view.kind # "none"
  /\ Len(strings) < MaxStrings
  /\ \E r \in {view_setitem(Tree, strings, view, key, value)} :
        /\ SetTree(r.t)
        /\ strings' = r.strings
        /\ last' = ViewCall("view_put", key, value, r.err, r.t, r.strings)
  /\ UNCHANGED <<totree, shadow, reenabled, view, walk, dbms, pax>>

\* del B[key] through the view
ViewDelete(key) ==
  /\ view.kind # "none"
  /\ \E r \in {view_delitem(Tree, strings, view, key)} :
        /\ SetTree(r.t)
        /\ strings' = r.strings
        /\ last' = ViewCall("view_delete", key, "", r.err, r.t, r.strings)
  /\ UNCHANGED <<totree, shadow, reenabled, view, walk, dbms, pax>>

\* a string tree is written, then read through a caching view
NextView ==
  \/ \E key \in InputKeys, value \in StringValues : SPut(key, value)
  \/ \E key \in ValidKeys : SDelete(key)
  \/ \E kind \in ViewKinds, writable \in BOOLEAN : OpenView(kind, writable)
  \/ \E key \in ValidKeys : ViewGet(key)
  \/ \E key \in ValidKeys, value \in StringValues : ViewPut(key, value)
  \/ \E key \in ValidKeys : ViewDelete(key)

SpecView == Init /\ [][NextView]_vars

\* ------------------------------------------- trees read from a file
\* The keys and values of the calls on a tree that open() read from a file; the files
\* hold greater keys as well, which stay.
OpenKeys == {<<c>> : c \in 1..MaxOpenKey}
OpenValues == {0}

\* the record of a leaf of the given size: its keys, each with value 0, and its neighbour
LeafRecord(size, keys, neighbour) ==
  [flag |-> Leafflag, validkeys |-> Len(keys),
   indices |-> [j \in 1..(size + 1) |->
                  IF j <= Len(keys) THEN 0 ELSE IF j = size + 1 THEN neighbour ELSE nilseek],
   keys |-> [j \in 1..size |-> IF j <= Len(keys) THEN keys[j] ELSE <<>>]]

\* the record of an interior node: its keys and its children, one more than the keys
InteriorRecord(size, flag, keys, children) ==
  [flag |-> flag, validkeys |-> Len(keys),
   indices |-> [j \in 1..(size + 1) |-> IF j <= Len(children) THEN children[j] ELSE nilseek],
   keys |-> [j \in 1..size |-> IF j <= Len(keys) THEN keys[j] ELSE <<>>]]

RECURSIVE CountKeys(_)
CountKeys(leaves) == IF leaves = <<>> THEN 0 ELSE Len(Head(leaves)) + CountKeys(Tail(leaves))

RECURSIVE Flatten(_)
Flatten(groups) == IF groups = <<>> THEN <<>> ELSE Head(groups) \o Flatten(Tail(groups))

\* the leftmost key of every leaf but the first
Separators(leaves) == [i \in 1..(Len(leaves) - 1) |-> leaves[i + 1][1]]

\* the records of the leaves, chained left to right, the first of them at slot 1
LeafRecords(size, leaves) ==
  [i \in 1..Len(leaves) |->
     LeafRecord(size, leaves[i], IF i < Len(leaves) THEN i + 1 ELSE nilseek)]

FileHeader(size, leaves, root) ==
  [length |-> CountKeys(leaves), keylen |-> KeyLen, nodesize |-> size,
   root_seek |-> root, free |-> nilseek]

\* a file holding a tree of two levels: the leaves, then the root above them
TwoLevels(size, leaves) ==
  [file |-> LeafRecords(size, leaves) \o
            <<InteriorRecord(size, Rootflag, Separators(leaves),
                             [i \in 1..Len(leaves) |-> i])>>,
   header |-> FileHeader(size, leaves, Len(leaves) + 1)]

\* how many leaves the groups before group i hold
RECURSIVE LeavesBefore(_, _)
LeavesBefore(groups, i) ==
  IF i <= 1 THEN 0 ELSE Len(groups[i - 1]) + LeavesBefore(groups, i - 1)

\* a file holding a tree of three levels: the leaves, then one interior node for each
\* group of leaves, then the root above the interior nodes
ThreeLevels(size, groups) ==
  Only({[file |-> LeafRecords(size, leaves) \o
                  [i \in 1..Len(groups) |->
                     InteriorRecord(size, Interiorflag, Separators(groups[i]),
                                    [j \in 1..Len(groups[i]) |-> LeavesBefore(groups, i) + j])] \o
                  <<InteriorRecord(size, Rootflag,
                                   [i \in 1..(Len(groups) - 1) |-> groups[i + 1][1][1]],
                                   [i \in 1..Len(groups) |-> Len(leaves) + i])>>,
         header |-> FileHeader(size, leaves, Len(leaves) + Len(groups) + 1)] :
        leaves \in {Flatten(groups)}})

\* the files given to open(): a tree of two levels of the least node size, a tree of
\* two levels with a leaf at its least and a leaf at its greatest number of keys, and a
\* tree of three levels whose nodes hold their least number of keys but for one
InputFiles ==
  {TwoLevels(2, << <<<<1>>>>, <<<<2>>, <<3>>>>, <<<<4>>>> >>),
   TwoLevels(4, << <<<<1>>, <<2>>>>, <<<<3>>, <<4>>, <<5>>, <<6>>>> >>),
   ThreeLevels(4, << << <<<<1>>, <<2>>>>, <<<<3>>, <<4>>>> >>,
                     << <<<<5>>, <<6>>>>, <<<<7>>, <<8>>>>, <<<<9>>, <<10>>>> >> >>)}

\* the state after BplusTree(file).open() on one of the files
InitOpened ==
  /\ \E f \in InputFiles :
        \E t \in {open(NewTree(f.file, f.header, NoneInt, NoneInt))} : InitTree(t)
  /\ totree = <<>>
  /\ last = [StartCall EXCEPT !.op = "open"]
  /\ shadow = NoShadow
  /\ reenabled = FALSE
  /\ InitExt

\* the operations on a tree read from a file, the cache off
NextOpened ==
  \/ \E key \in OpenKeys, value \in OpenValues : Put(key, value)
  \/ \E key \in OpenKeys : Delete(key)
  \/ \E key \in OpenKeys : Get(key)

SpecOpened == InitOpened /\ [][NextOpened]_vars

\* a file holding a tree of four levels: the leaves, one interior node for each group of
\* leaves, one interior node for each family of groups, and the root above the families
FourLevels(size, families) ==
  Only({Only({
    [file |-> LeafRecords(size, leaves) \o
              [i \in 1..Len(groups) |->
                 InteriorRecord(size, Interiorflag, Separators(groups[i]),
                                [j \in 1..Len(groups[i]) |-> LeavesBefore(groups, i) + j])] \o
              [f \in 1..Len(families) |->
                 InteriorRecord(size, Interiorflag,
                                [i \in 1..(Len(families[f]) - 1) |-> families[f][i + 1][1][1]],
                                [i \in 1..Len(families[f]) |->
                                   Len(leaves) + LeavesBefore(families, f) + i])] \o
              <<InteriorRecord(size, Rootflag,
                               [f \in 1..(Len(families) - 1) |-> families[f + 1][1][1][1]],
                               [f \in 1..Len(families) |-> Len(leaves) + Len(groups) + f])>>,
     header |-> FileHeader(size, leaves, Len(leaves) + Len(groups) + Len(families) + 1)] :
    leaves \in {Flatten(groups)}}) :
    groups \in {Flatten(families)}})

\* a tree of four levels of node size 4: the second family has three groups, of two,
\* three and two leaves; every leaf holds two keys
DeepFile ==
  FourLevels(4, << << << <<<<1>>, <<2>>>>, <<<<3>>, <<4>>>> >>,
                      << <<<<5>>, <<6>>>>, <<<<7>>, <<8>>>> >> >>,
                   << << <<<<9>>, <<10>>>>, <<<<11>>, <<12>>>> >>,
                      << <<<<13>>, <<14>>>>, <<<<15>>, <<16>>>>, <<<<17>>, <<18>>>> >>,
                      << <<<<19>>, <<20>>>>, <<<<21>>, <<22>>>> >> >> >>)

\* the keys of the calls on the tree of four levels: keys of the first group of the
\* second family
DeepKeys == {<<9>>, <<11>>, <<12>>}

InitDeep ==
  /\ \E t \in {open(NewTree(DeepFile.file, DeepFile.header, NoneInt, NoneInt))} : InitTree(t)
  /\ totree = <<>>
  /\ last = [StartCall EXCEPT !.op = "open"]
  /\ shadow = NoShadow
  /\ reenabled = FALSE
  /\ InitExt

\* the operations on the tree of four levels, the cache off
NextDeep ==
  \/ \E key \in DeepKeys, value \in OpenValues : Put(key, value)
  \/ \E key \in DeepKeys : Delete(key)
  \/ \E key \in DeepKeys : Get(key)

SpecDeep == InitDeep /\ [][NextDeep]_vars

\* the state after BplusTree(file).open() and enable_fifo(5) on one of the files
InitCached ==
  /\ \E f \in InputFiles :
        \E t \in {enable_fifo(open(NewTree(f.file, f.header, NoneInt, NoneInt)), MinFifoSize).t} :
           InitTree(t)
  /\ totree = <<>>
  /\ last = [StartCall EXCEPT !.op = "enable_fifo"]
  /\ shadow = NoShadow
  /\ reenabled = FALSE
  /\ InitExt

\* the operations on a tree read from a file, the cache on
NextCached ==
  \/ \E key \in OpenKeys, value \in OpenValues : Put(key, value)
  \/ \E key \in OpenKeys : Delete(key)
  \/ \E key \in OpenKeys : Get(key)

SpecCached == InitCached /\ [][NextCached]_vars

\* a tree read from a file is copied, between deletes, into a tree freshly created
NextRecopied ==
  \/ \E key \in OpenKeys : Delete(key)
  \/ Recopy

SpecRecopied == InitOpened /\ [][NextRecopied]_vars

\* ------------------------------------------------- walkers in use
\* The bounds of the walkers made, and the most next() calls made on one walker.
WalkerLower == {None, <<2>>, <<3>>}
WalkerUpper == {None, <<3>>, <<5>>}
WalkerKeys == {<<2>>, <<3>>}
MaxSteps == 4

\* W = BplusWalker(tree, keylower, includelower, keyupper, includeupper)
MakeWalker(keylower, includelower, keyupper, includeupper) ==
  /\ walk.op = "none"
  /\ \E r \in {walker(Tree, keylower, includelower, keyupper, includeupper)} :
        /\ r.err = "ok"
        /\ walk' = [op |-> "new", err |-> "ok", w |-> r.w, made |-> Observed(r.w), steps |-> 0]
  /\ UNCHANGED <<file, header, length, keylen, nodesize, root_seek, free, fifo_enabled, dirty,
                 mem, dirtynodes, fifo, totree, last, shadow, reenabled, strings, view, dbms, pax>>

\* W.next(): node_index + 1 fails with TypeError while node_index is None
WalkerNext ==
  /\ walk.op # "none"
  /\ walk.steps < MaxSteps
  /\ walk' = IF walk.w.node_index = NoIndex
             THEN [walk EXCEPT !.op = "next", !.err = "TypeError", !.steps = @ + 1]
             ELSE [walk EXCEPT !.op = "next", !.err = "ok", !.w = next(Tree, walk.w).w,
                               !.steps = @ + 1]
  /\ UNCHANGED <<file, header, length, keylen, nodesize, root_seek, free, fifo_enabled, dirty,
                 mem, dirtynodes, fifo, totree, last, shadow, reenabled, strings, view, dbms, pax>>

\* W.first()
WalkerFirst ==
  /\ walk.op # "none"
  /\ walk' = [walk EXCEPT !.op = "first", !.err = "ok", !.w = first(Tree, walk.w).w]
  /\ UNCHANGED <<file, header, length, keylen, nodesize, root_seek, free, fifo_enabled, dirty,
                 mem, dirtynodes, fifo, totree, last, shadow, reenabled, strings, view, dbms, pax>>

\* the walker is dropped; the tree may be updated again
DropWalker ==
  /\ walk.op # "none"
  /\ walk' = NoWalker
  /\ UNCHANGED <<file, header, length, keylen, nodesize, root_seek, free, fifo_enabled, dirty,
                 mem, dirtynodes, fifo, totree, last, shadow, reenabled, strings, view, dbms, pax>>

\* walkers on a tree read from a file; the tree is not updated while a walker is in use
NextWalker ==
  \/ \E keylower \in WalkerLower, keyupper \in WalkerUpper :
        \E includelower, includeupper \in BOOLEAN :
           MakeWalker(keylower, includelower, keyupper, includeupper)
  \/ WalkerNext
  \/ WalkerFirst
  \/ DropWalker
  \/ \E key \in WalkerKeys, value \in OpenValues : walk.op = "none" /\ Put(key, value)
  \/ \E key \in WalkerKeys : walk.op = "none" /\ Delete(key)

SpecWalker == InitOpened /\ [][NextWalker]_vars


\* --------------------------------------------------- the dbm in use
\* the dbm object d: its tree and its file are the tree and the string records of the state
D ==
  [tree |-> Tree, strings |-> strings, length |-> dbms.length,
   lengthrecord |-> dbms.lengthrecord, fileflag |-> dbms.fileflag, closed |-> dbms.closed]

\* what a dbm returns for each item it holds: the items i with d[i], and d[i]
Mapping(d) ==
  [k \in {i \in DbmItems : dbm_getitem(d, i).err = "ok"} |-> dbm_getitem(d, k).value]

\* the record of a dbm call: the item, how it ended, for keys() the result, and for a
\* call on the copy what len(d), len(other) and the items of other were when it began
DbmCall(op, item, err, keys, count) ==
  [op |-> op, item |-> item, err |-> err, keys |-> keys, count |-> count,
   dlen |-> dbms.length,
   olen |-> IF dbms.copied THEN dbms.other.length ELSE 0,
   oitems |-> IF dbms.copied /\ ~dbms.other.closed THEN DOMAIN Mapping(dbms.other) ELSE {}]

\* the state after a call that left d, its copy other and the call record
SetDbm(d, copied, other, closedas, call) ==
  /\ SetTree(d.tree)
  /\ strings' = d.strings
  /\ dbms' = [made |-> TRUE, length |-> d.length, lengthrecord |-> d.lengthrecord,
              fileflag |-> d.fileflag, closed |-> d.closed,
              copied |-> copied, other |-> other, closedas |-> closedas, call |-> call]
  /\ UNCHANGED <<totree, last, shadow, reenabled, view, walk, pax>>

\* the state after d = dbm(filename, "c")
InitDbm ==
  /\ \E d \in {dbm_create} :
        /\ InitTree(d.tree)
        /\ strings = d.strings
        /\ dbms = [NoDbms EXCEPT !.made = TRUE,
                                 !.call = [op |-> "dbm", item |-> None, err |-> "ok",
                                           keys |-> {}, count |-> 0, dlen |-> 0,
                                           olen |-> 0, oitems |-> {}]]
  /\ totree = <<>>
  /\ last = StartCall
  /\ shadow = NoShadow
  /\ reenabled = FALSE
  /\ view = NoView
  /\ walk = NoWalker
  /\ InitPaxos

\* d[item] = value
DbmSet(item, value) ==
  /\ Len(strings) < MaxRecords
  /\ \E r \in {dbm_setitem(D, item, value)} :
        SetDbm(r.d, dbms.copied, dbms.other, dbms.closedas,
               DbmCall("set", item, r.err, {}, 0))

\* del d[item]
DbmDelete(item) ==
  /\ Len(strings) < MaxRecords
  /\ \E r \in {dbm_delitem(D, item)} :
        SetDbm(r.d, dbms.copied, dbms.other, dbms.closedas,
               DbmCall("delete", item, r.err, {}, 0))

\* d.keys()
DbmKeys ==
  \E r \in {dbm_keys(D)} :
     SetDbm(r.d, dbms.copied, dbms.other, dbms.closedas,
            DbmCall("keys", None, r.err, r.keys, r.count))

\* other = d.copy(tofilename, "c"); a copy that raises leaves no other
DbmCopy ==
  /\ ~dbms.copied
  /\ \E r \in {dbm_copy(D)} :
        SetDbm(r.d, r.err = "ok", IF r.err = "ok" THEN r.other ELSE dbms.other,
               dbms.closedas, DbmCall("copy", None, r.err, {}, 0))

\* del other[item] on the copy as d.copy made it
OtherDelete(item) ==
  /\ dbms.copied
  /\ ~dbms.other.closed
  /\ dbms.other.fileflag = "c"
  /\ \E r \in {dbm_delitem(dbms.other, item)} :
        SetDbm(D, TRUE, r.d, dbms.closedas, DbmCall("other_delete", item, r.err, {}, 0))

\* other.close(); closedas keeps len(other) and the items of other as they were
OtherClose ==
  /\ dbms.copied
  /\ ~dbms.other.closed
  /\ \E r \in {dbm_close(dbms.other)} :
        SetDbm(D, TRUE, r.d,
               [length |-> dbms.other.length, items |-> DOMAIN Mapping(dbms.other)],
               DbmCall("other_close", None, r.err, {}, 0))

\* other = dbm(tofilename, "r") on the file of the closed copy
OtherReopen ==
  /\ dbms.copied
  /\ dbms.other.closed
  /\ \E o \in {dbm_open(dbms.other, "r")} :
        SetDbm(D, TRUE, o, dbms.closedas, DbmCall("other_reopen", None, "ok", {}, 0))

\* a dbm is written and read
NextDbm ==
  \/ \E item \in DbmItems, value \in DbmValues : DbmSet(item, value)
  \/ \E item \in DbmItems : DbmDelete(item)
  \/ DbmKeys

SpecDbm == InitDbm /\ [][NextDbm]_vars

\* a dbm is written, then copied, and the copy is written, closed and reopened
NextCopy ==
  \/ \E item \in DbmItems, value \in DbmValues : ~dbms.copied /\ DbmSet(item, value)
  \/ \E item \in DbmItems : ~dbms.copied /\ DbmDelete(item)
  \/ DbmCopy
  \/ \E item \in DbmItems : OtherDelete(item)
  \/ OtherClose
  \/ OtherReopen

SpecCopy == InitDbm /\ [][NextCopy]_vars

\* ----------------------------------------------------------- claims
\* C1: get(k) returns the value of the most recent successful put(k, v) whenever k
\* has not been deleted since that put.
C1_RoundTrip ==
  \A k \in DOMAIN shadow :
     getitem(Tree, k).err = "ok" /\ getitem(Tree, k).value = shadow[k]

\* C3: a put of a valid key (length <= keylen, value >= 0) always succeeds, however
\* full the leaf is: no overflow error reaches the caller.
C3_PutNeverOverflows ==
  (last.op = "put" /\ Len(last.key) <= keylen /\ last.value >= 0) => last.err = "ok"

\* C4: get(k) raises KeyNotFound for every string k of length 0..keylen that is not
\* a live key (never inserted, or deleted since); it never returns a value for it.
C4_AbsentKeyNotFound ==
  \A k \in ValidKeys :
     (k \notin DOMAIN shadow /\ k \notin LiveKeys(Tree)) => getitem(Tree, k).err = "KeyError"

\* C5: delete(k) of a string k of length 0..keylen that is not a live key raises
\* KeyNotFound and leaves length, the live keys, every node and the free list unchanged.
C5_DeleteAbsentRaises ==
  (last.op = "delete" /\ Len(last.key) <= keylen /\ ~last.live)
     => (last.err = "KeyError" /\ last.same)

\* C6: len(tree) equals the number of entries a walker with no bounds emits, from a
\* freshly created (empty) tree on and after every put or delete.
C6_LengthIsWalkCount ==
  length = Len(Walk(Tree, None, FALSE, None, FALSE))

WalkBounds == ValidKeys \cup {None}

InRange(k, keylower, includelower, keyupper, includeupper) ==
  /\ keylower = None \/ KeyLess(keylower, k) \/ (includelower /\ k = keylower)
  /\ keyupper = None \/ KeyLess(k, keyupper) \/ (includeupper /\ k = keyupper)

\* e lists exactly the keys of S, each once, in ascending order
AscendingKeys(e, S) ==
  /\ Len(e) = Cardinality(S)
  /\ {e[i][1] : i \in 1..Len(e)} = S
  /\ \A i \in 1..(Len(e) - 1) : KeyLess(e[i][1], e[i + 1][1])

\* C7: for every walker configuration, iterating until valid is false emits exactly
\* the live keys within the bounds, each once, in ascending order.
C7_WalkerBounds ==
  \A keylower \in WalkBounds, keyupper \in WalkBounds, includelower \in BOOLEAN, includeupper \in BOOLEAN :
     AscendingKeys(Walk(Tree, keylower, includelower, keyupper, includeupper),
                   {k \in LiveKeys(Tree) : InRange(k, keylower, includelower, keyupper, includeupper)})

\* C9 (SpecRecopy): recopy_tree(src, dst) into a fresh compatible dst succeeds and leaves dst with
\* exactly src's map and length, walkers over both emitting the same sequence; also
\* for a src with no keys.
C9_RecopyPreserves ==
  last.op = "recopy" =>
     /\ last.err = "ok"
     /\ LiveEntries(totree) = LiveEntries(Tree)
     /\ totree.length = length
     /\ Walk(totree, None, FALSE, None, FALSE) = Walk(Tree, None, FALSE, None, FALSE)

\* C2: a successful put of a key that is already live leaves length unchanged and
\* a successful put of a key that is not live adds exactly one; the key of a put
\* that directly follows a successful put of the same key is live (so the pair
\* adds one in total, or nothing when the key was there before), and after every
\* successful put get(key) returns the value just put.
C2_OverwriteKeepsLength ==
  (last.op = "put" /\ last.err = "ok") =>
     /\ last.grew = (IF last.live THEN 0 ELSE 1)
     /\ (last.prev # nilseek => (last.live /\ last.grew = 0))
     /\ getitem(Tree, last.key).err = "ok"
     /\ getitem(Tree, last.key).value = last.value

\* reached: put(k, v) then put(k, w) with w # v, both successful
C2_Witness ==
  /\ last.op = "put" /\ last.err = "ok"
  /\ last.prev # nilseek /\ last.prev # last.value
  /\ length >= 1

\* C10: a put whose key is longer than keylen, or whose value is negative, raises
\* ValueError and leaves the tree as it was (length, header, file, nodes held in
\* memory, free list, cache).
C10_BadPutRejected ==
  (last.op = "put" /\ (Len(last.key) > keylen \/ last.value < 0)) =>
     (last.err = "ValueError" /\ last.same)

\* reached: a tree holding a key has rejected a put of a key that is too long
C10_Witness ==
  /\ last.op = "put" /\ Len(last.key) > keylen /\ last.value >= 0
  /\ last.err = "ValueError"
  /\ length >= 1 /\ RootNode(Tree).validkeys >= 1

\* C8 (SpecFifo): when disable_fifo returns, and no enable_fifo replaced a cache that
\* was in use, the file decodes to the pairs the tree object holds, in the same
\* order, and the header on the file carries the tree's length and root.
C8_DisableFlushes ==
  (last.op = "disable_fifo" /\ ~reenabled) =>
     /\ DiskEntries(Tree) = LiveEntries(Tree)
     /\ header.length = length
     /\ header.root_seek = root_seek
     /\ dirtynodes = {}

\* reached: disable_fifo has written a dirty node of a tree that holds keys, and
\* the header on the file carries a length that is not the initial one
C8_Witness ==
  /\ last.op = "disable_fifo" /\ ~reenabled
  /\ last.value >= 1
  /\ length >= 1 /\ header.length >= 1
  /\ Len(LiveEntries(Tree)) >= 1

\* C12 (SpecUnopened): on a tree object that was neither started nor opened, get, put
\* and delete each raise ValueError (the "not open!" error) and leave the object and
\* the file as they were.
C12_NotOpenRaises ==
  RootIsNone(Tree) =>
     /\ \A key \in ValidKeys :
           getitem(Tree, key).err = "ValueError" /\ getitem(Tree, key).t = Tree
     /\ \A key \in ValidKeys, value \in 0..MaxValue :
           setitem(Tree, key, value).err = "ValueError" /\ setitem(Tree, key, value).t = Tree
     /\ \A key \in ValidKeys :
           delitem(Tree, key).err = "ValueError" /\ delitem(Tree, key).t = Tree

\* C11 (SpecView): every put and every delete through a caching view raises ValueError
\* (the view's "op not permitted" error) and leaves the file, its string records and the
\* tree object as they were, and every lookup through the view returns what it
\* returned before the call.
C11_ViewRejectsUpdates ==
  (last.op \in {"view_put", "view_delete"}) =>
     /\ last.err = "ValueError"
     /\ last.same
     /\ \A k \in ValidKeys : ViewLookup(k) = last.before[k]

SubtreeKeys(t, p) ==
  {SubtreeEntries(t, FALSE, p, Len(t.file))[i][1] :
     i \in 1..Len(SubtreeEntries(t, FALSE, p, Len(t.file)))}

\* an interior node is well formed: validkeys + 1 distinct children in the file, keys
\* ascending, and the keys below child i at or above keys[i-1] and below keys[i]
InteriorOk(t, node) ==
  /\ node.validkeys >= 0
  /\ \A i \in 1..(node.validkeys + 1) : ValidPosition(t, node.indices[i])
  /\ \A i, j \in 1..(node.validkeys + 1) : i # j => node.indices[i] # node.indices[j]
  /\ \A i \in 1..(node.validkeys - 1) : KeyLess(node.keys[i], node.keys[i + 1])
  /\ \A i \in 1..(node.validkeys + 1) : \A k \in SubtreeKeys(t, node.indices[i]) :
        /\ i > 1 => ~KeyLess(k, node.keys[i - 1])
        /\ i <= node.validkeys => KeyLess(k, node.keys[i])

StoredItems(d) ==
  UNION {DOMAIN d.strings[LiveEntries(d.tree)[i][2]] : i \in 1..Len(LiveEntries(d.tree))}

\* C18: after any sequence of dbm sets and deletes (overwrites, failed deletes of absent
\* keys and hash collisions included) len(d) is the number of distinct keys stored in the
\* buckets, and keys() returns exactly that many keys without raising
C18_LengthIsKeyCount ==
  /\ dbms.length = Cardinality(StoredItems(D))
  /\ dbms.call.op = "keys" =>
        /\ dbms.call.err = "ok"
        /\ dbms.call.count = dbms.length
        /\ dbms.call.keys = StoredItems(D)

\* C19: d.copy(name, "c") yields a dbm with the mapping and the len of d; deleting a
\* present key from the copy lowers the len of the copy by one and leaves len(d) alone;
\* after the copy is closed and reopened its len and its keys are what they were before
\* the close
C19_CopyIsIndependent ==
  /\ dbms.call.op = "copy" =>
        /\ dbms.call.err = "ok"
        /\ Mapping(dbms.other) = Mapping(D)
        /\ dbms.other.length = dbms.length
  /\ (dbms.call.op = "other_delete" /\ dbms.call.item \in dbms.call.oitems) =>
        /\ dbms.call.err = "ok"
        /\ dbms.other.length = dbms.call.olen - 1
        /\ DOMAIN Mapping(dbms.other) = dbms.call.oitems \ {dbms.call.item}
        /\ dbms.length = dbms.call.dlen
  /\ dbms.call.op = "other_reopen" =>
        /\ dbms.other.length = dbms.closedas.length
        /\ DOMAIN Mapping(dbms.other) = dbms.closedas.items

\* what remove returns for the node and for each node below it on the way to the key
RECURSIVE RemoveCalls(_, _, _)
RemoveCalls(t, key, node) ==
  {remove(t, key, node)} \cup
  (IF node.flag \in Interiorflags
   THEN Only({IF g.err # "ok" THEN {} ELSE RemoveCalls(g.t, key, g.node) :
              g \in {getnode(t, node, Descend(node, key).nodekey)}})
   ELSE {})

\* the keys in the valid slots of the leaves of the subtree of a node object
KeysUnder(t, node) ==
  IF node.flag \in Leafflags THEN {node.keys[j] : j \in 1..PyMax(node.validkeys, 0)}
  ELSE UNION {SubtreeKeys(t, node.indices[i]) : i \in 1..(node.validkeys + 1)}

C22_FlushBeforeHeader ==
  (fifo_enabled /\ dirty) =>
     \A h \in {disable_header(Tree)} :
        \A p \in {h.header.root_seek, h.header.free} : ~(Cached(h, p) /\ p \in h.dirtynodes)

DivideCall(size, leftnode, rightnode, s) ==
  Only({IF Len(ki) >= size
        THEN {[leftnode |-> leftnode, rightnode |-> rightnode, entries |-> Tail(ki),
               divided |-> divide_entries(ki[1][2], leftnode, rightnode, Tail(ki))]}
        ELSE {} :
        ki \in {keys_indices(leftnode, s.leftkey) \o keys_indices(rightnode, s.rightkey)}})

\* the two siblings remove hands to divide_entries when nextnode, an interior node, came
\* back too small and the combined number of child pointers is at least nodesize
SiblingsToDivide(t, node, key, nextnode) ==
  Only({IF (d.nodekey = None /\ node.validkeys = 0) \/ nextnode.flag = Leafflag THEN {}
        ELSE Only({Only({IF g.err # "ok" THEN {}
                         ELSE DivideCall(t.nodesize,
                                         IF d.place >= node.validkeys THEN g.node ELSE nextnode,
                                         IF d.place >= node.validkeys THEN nextnode ELSE g.node,
                                         s) :
                         g \in {getnode(t, node, s.otherkey)}}) :
                   s \in {Siblings(node, d)}}) :
        d \in {Descend(node, key)}})

\* the interior redistributes of remove(key, node), at every level of the descent
RECURSIVE InteriorRedistributes(_, _, _)
InteriorRedistributes(t, key, node) ==
  IF node.flag \notin Interiorflags THEN {}
  ELSE Only({IF g.err # "ok" THEN {}
             ELSE InteriorRedistributes(g.t, key, g.node) \cup
                  Only({IF r.err = "ok" /\ r.size < t.nodesize \div 2
                        THEN SiblingsToDivide(r.t, node, key, r.node) ELSE {} :
                        r \in {remove(g.t, key, g.node)}}) :
             g \in {getnode(t, node, Descend(node, key).nodekey)}})

C28_RootCollapse ==
  [][(last'.op = "delete" /\ last'.err = "ok") =>
        /\ ~(RootNode(Tree').flag \in Interiorflags /\ RootNode(Tree').validkeys < 1)
        /\ (RootNode(Tree).flag = Rootflag /\ root_seek' # root_seek) =>
              /\ \E i \in 1..(nodesize + 1) : RootNode(Tree).indices[i] = root_seek'
              /\ RootNode(Tree').position = root_seek'
              /\ NodeView(Tree', TRUE, root_seek') = RootNode(Tree')
              /\ RootNode(Tree').flag = IF NodeView(Tree, TRUE, root_seek').flag = Leafflag
                                        THEN LeafandRootflag ELSE Rootflag
              /\ free' = root_seek
              /\ NodeView(Tree', TRUE, root_seek).flag = Freeflag
              /\ header'.root_seek = root_seek'
              /\ header'.free = free']_vars

\* a successful delete after which the record that was the root of the file opened is the
\* head of the free list and one of its children is the root
C28_Witness ==
  /\ last.op = "delete" /\ last.err = "ok"
  /\ free = Len(file) /\ root_seek # Len(file)
  /\ NodeView(Tree, TRUE, free).flag = Freeflag
  /\ RootNode(Tree).flag \in {Rootflag, LeafandRootflag}

InitServers ==
  /\ \E t \in {startup(MaxNodeSize, KeyLen)} : InitTree(t)
  /\ totree = <<>>
  /\ last = StartCall
  /\ shadow = NoShadow
  /\ reenabled = FALSE
  /\ InitExt

\* ipc.client(request): a request is sent to a proposer from a new socket
ClientRequest(to) ==
  /\ nrequests < MaxRequests
  /\ nrequests' = nrequests + 1
  /\ net' = net (+) SetToBag({Datagram(to, ClientAddr(nrequests + 1),
                                       [request |-> nrequests + 1, protocol |-> "paxos"])})
  /\ UNCHANGED <<state, hnum, nreceives, client, request_q, current_i, alive, learned,
                 nreceived, bcasts, arrived, taken>>
  /\ UNCHANGED <<file, header, length, keylen, nodesize, root_seek, free, fifo_enabled, dirty,
                 mem, dirtynodes, fifo, totree, last, shadow, reenabled, strings, view, walk,
                 dbms>>

\* driver: sock.recvfrom hands a datagram to the coroutine of a server that still runs;
\* datagrams are received in any order
Receive(m) ==
  /\ m.to \in Servers
  /\ alive[m.to]
  /\ nreceived < MaxDatagrams
  /\ \E r \in {paxos(Locals(m.to), m.data, m.addr, m.to)} :
        /\ state' = [state EXCEPT ![m.to] = r.c.state]
        /\ hnum' = [hnum EXCEPT ![m.to] = r.c.hnum]
        /\ nreceives' = [nreceives EXCEPT ![m.to] = r.c.nreceives]
        /\ client' = [client EXCEPT ![m.to] = r.c.client]
        /\ request_q' = [request_q EXCEPT ![m.to] = r.c.request_q]
        /\ current_i' = [current_i EXCEPT ![m.to] = r.c.current_i]
        /\ alive' = [alive EXCEPT ![m.to] = (r.err = "ok")]
        /\ learned' = [learned EXCEPT ![m.to] = @ \o r.learn]
        /\ net' = (net (-) SetToBag({m})) (+) SetToBag(r.out)
        /\ bcasts' = [bcasts EXCEPT ![m.to] = @ \o r.bc]
        /\ taken' = [taken EXCEPT ![m.to] = @ \o r.took]
  /\ arrived' = [arrived EXCEPT ![m.to] =
                    IF "request" \in DOMAIN m.data THEN Append(@, m.data.request) ELSE @]
  /\ nreceived' = nreceived + 1
  /\ UNCHANGED nrequests
  /\ UNCHANGED <<file, header, length, keylen, nodesize, root_seek, free, fifo_enabled, dirty,
                 mem, dirtynodes, fifo, totree, last, shadow, reenabled, strings, view, walk,
                 dbms>>

NextPaxos ==
  \/ \E to \in Proposers : ClientRequest(to)
  \/ \E m \in BagToSet(net) : Receive(m)

SpecPaxos == InitServers /\ [][NextPaxos]_vars

C32_RejectedPutFrame ==
  (last.op \in {"sput", "view_put"} /\ last.err = "ValueError") => last.same

\* the walker shows no pair, or a pair of a slot below validkeys of its leaf
NoPaddingSlot(w) == w.valid => (w.node_index >= 0 /\ w.node_index < w.node.validkeys)

\* C33: on a tree with no keys a walker with any bounds is not valid after construction
\* and after first(); on any tree a walker that is valid after construction or after
\* first() shows a slot below validkeys, never an unused slot of the leaf.
C33_EmptyTreeWalker ==
  \A keylower \in WalkBounds, keyupper \in WalkBounds, includelower \in BOOLEAN, includeupper \in BOOLEAN :
     \A wk \in {walker(Tree, keylower, includelower, keyupper, includeupper)} :
        wk.err = "ok" =>
           \A again \in {first(wk.t, wk.w)} :
              /\ LiveKeys(Tree) = {} => (~wk.w.valid /\ ~again.w.valid)
              /\ NoPaddingSlot(wk.w)
              /\ NoPaddingSlot(again.w)

\* the tree object has no cache, nothing deferred, and the file holds its header and the
\* images of the nodes it holds
Flushed(t) ==
  /\ ~t.fifo_enabled /\ ~t.fifo.on /\ ~t.dirty /\ t.dirtynodes = {}
  /\ t.header = HeaderTuple(t)
  /\ \A p \in DOMAIN t.mem : t.file[p] = linearize(t.mem[p])

\* C34 (SpecRecopied): recopy_tree has the destination's cache enabled before the first
\* insert and still enabled when the copying loop ends, with or without an error, and
\* when it returns or raises the destination's cache is disabled and flushed.
C34_RecopyCache ==
  /\ \A e \in {enable_fifo(startup(nodesize, keylen), DefaultFifoSize)} :
        /\ e.err = "ok" /\ e.t.fifo.on /\ e.t.length = 0
        /\ \A wk \in {walker(Tree, None, FALSE, None, FALSE)} :
              wk.err = "ok" =>
                 \A c \in {CopyLoop(wk.t, e.t, wk.w, <<>>)} : c.tt.fifo.on /\ c.tt.fifo_enabled
  /\ last.op = "recopy" => Flushed(totree)

\* a copy that was abandoned on an error after it had put keys in the destination
C34_Witness ==
  /\ last.op = "recopy" /\ last.err # "ok"
  /\ totree.length > 0
  /\ Flushed(totree)

Bucketmates(item) == {o \in DbmItems \ {item} : hash(o) = hash(item)}

Returned(d, i) == Only({[err |-> r.err, value |-> r.value] : r \in {dbm_getitem(d, i)}})

\* C36: two dbm keys whose hashes collide live in one bucket and stay independently
\* retrievable: a set or a delete of one of them leaves what d[other] returns as it was, and
\* the entry of the bucket leaves the tree exactly when the last key of the bucket is deleted
C36_CollidingKeys ==
  [][/\ dbms'.call.op \in {"set", "delete"} =>
           \A o \in Bucketmates(dbms'.call.item) : Returned(D, o) = Returned(D, o)'
     /\ \A i \in DbmItems :
           (hash(i) \in LiveKeys(Tree) /\ hash(i) \notin LiveKeys(Tree)')
           <=> (/\ dbms'.call.op = "delete" /\ dbms'.call.err = "ok"
                /\ hash(dbms'.call.item) = hash(i)
                /\ DOMAIN pairs(D, hash(i)).pairs = {dbms'.call.item})
     /\ \A i \in DbmItems :
           Returned(D, i).err = "ok" => i \in DOMAIN pairs(D, hash(i)).pairs]_vars

\* one of two colliding keys has been deleted and the other is still returned
C36_Witness ==
  /\ dbms.call.op = "delete" /\ dbms.call.err = "ok"
  /\ \E o \in Bucketmates(dbms.call.item) : Returned(D, o).err = "ok"

\* the cache of t holds at most fifosize nodes, one for a position, and the list ff and the
\* objects held by position (fifo_dict, and self.root) are the same nodes
CacheOk(t) ==
  t.fifo.on =>
    /\ Len(t.fifo.ff) <= t.fifo.fifosize
    /\ Cardinality(SeqSet(t.fifo.ff)) = Len(t.fifo.ff)
    /\ SeqSet(t.fifo.ff) \subseteq DOMAIN t.mem
    /\ (DOMAIN t.mem) \ SeqSet(t.fifo.ff) \subseteq {t.root_seek}
    /\ \A p \in SeqSet(t.fifo.ff) : t.mem[p].position = p

\* what a load of position p through the cache of t leaves: a hit moves the node to the
\* front of ff, a miss puts it there and drops the last node of a full ff
LoadOk(t, p, m) ==
  /\ CacheOk(m.t)
  /\ m.t.fifo.ff[1] = p
  /\ m.node.position = p
  /\ p \in SeqSet(t.fifo.ff) =>
        /\ m.t.fifo.ff = <<p>> \o SelectSeq(t.fifo.ff, LAMBDA q : q # p)
        /\ m.node = t.mem[p]
  /\ (p \notin SeqSet(t.fifo.ff) /\ Len(t.fifo.ff) < t.fifo.fifosize) =>
        m.t.fifo.ff = <<p>> \o t.fifo.ff
  /\ (p \notin SeqSet(t.fifo.ff) /\ Len(t.fifo.ff) = t.fifo.fifosize) =>
        /\ m.t.fifo.ff = <<p>> \o SubSeq(t.fifo.ff, 1, Len(t.fifo.ff) - 1)
        /\ t.fifo.ff[Len(t.fifo.ff)] \notin (DOMAIN m.t.mem) \ {t.root_seek}

\* C37: while the cache is enabled, after every operation it holds at most fifosize nodes
\* and one node for a position, its list and its index by position hold the same nodes, a
\* hit in materialize or getnode moves the node to the most recently used end, and the
\* node dropped on overflow is the least recently used one
C37_CacheLru ==
  /\ CacheOk(Tree)
  /\ fifo.on =>
        /\ \A p \in 1..Len(file) : LoadOk(Tree, p, materialize(Tree, p))
        /\ RootNode(Tree).flag \in Interiorflags =>
              \A i \in 0..(RootNode(Tree).validkeys) :
                 \A g \in {getnode(Tree, RootNode(Tree),
                                    IF i = 0 THEN None ELSE RootNode(Tree).keys[i])} :
                    g.err = "ok" => LoadOk(Tree, g.node.position, g)

\* the cache is full and a node that was freed, and so was in the cache, is no longer in it
C37_Witness ==
  /\ fifo.on /\ Len(fifo.ff) = fifo.fifosize
  /\ \E p \in SeqSet(FreeChain(Tree)) \ {0} : p \notin SeqSet(fifo.ff) /\ file[p].flag = Freeflag

\* C38: the accept message a proposer broadcasts after promises from more than half of the
\* servers carries the proposal number of the prepare message it broadcast for that
\* request, whatever the order in which the datagrams are received
C38_AcceptNumber ==
  \A p \in Servers :
     \A k \in 1..Len(bcasts[p]) :
        "accept" \in DOMAIN bcasts[p][k] =>
           \E j \in 1..(k - 1) :
              /\ "prepare" \in DOMAIN bcasts[p][j]
              /\ bcasts[p][j].prepare = bcasts[p][k].accept
              /\ bcasts[p][j].i = bcasts[p][k].i

\* C39: a proposer in state 'preparing' or 'accepting' that receives the nack an acceptor
\* sent for its current proposal goes back to 'waiting' with nreceives 0 (and from there
\* takes the next queued request, if there is one) and its coroutine keeps running; a nack
\* for an older proposal leaves its state and its counter as they were
C39_NackFallsBack ==
  [][\A m \in BagToSet(net) :
        (/\ "nack" \in DOMAIN m.data
         /\ m.to \in Servers
         /\ state[m.to] \in {"preparing", "accepting"}
         /\ Receive(m))
        => /\ alive'[m.to]
           /\ IF m.data.nack = current_i[m.to]
              THEN \/ state'[m.to] = "waiting" /\ nreceives'[m.to] = 0
                   \/ request_q[m.to] # <<>> /\ state'[m.to] = "preparing" /\ nreceives'[m.to] = 0
              ELSE state'[m.to] = state[m.to] /\ nreceives'[m.to] = nreceives[m.to]]_vars

\* the requests server s holds in its queue: none once its coroutine has ended
Pending(s) ==
  IF alive[s] THEN [k \in 1..Len(request_q[s]) |-> request_q[s][k].data.request] ELSE <<>>

\* C40: the requests a proposer received while 'preparing' or 'accepting' are queued and
\* taken one at a time, in the order they arrived and ahead of any new message, each time
\* it is back in 'waiting': the requests received are the requests taken followed by the
\* requests queued, and none is queued while the proposer waits for a message in 'waiting'
C40_QueueIsFifo ==
  \A s \in Servers :
     /\ arrived[s] = taken[s] \o Pending(s)
     /\ state[s] = "waiting" => request_q[s] = <<>>

====
